---- MODULE Spec2Model ----
(***************************************************************************)
(* Model of the Arcana card battle engine (src/discord_engine.py):          *)
(* the match state, the phase state machine (next_phase and upkeep) and    *)
(* the rule-checked operations summon_spirit, prepare_spell,                *)
(* replace_spell, use_wizard_ability, activate_spell, attack_with_spirit.   *)
(*                                                                         *)
(* Python lists are 0-based; sequences here are 1-based, so an operation    *)
(* that takes a slot index i reads element i + 1.                           *)
(***************************************************************************)
EXTENDS Integers, Sequences, FiniteSets, TLC

\* ------------------------------------------------------------------------
\* Bounds of the model
\* ------------------------------------------------------------------------
\* next_phase advances the phase at most this many times: with 10 the
\* match runs through both sides' first turns and player 1's second turn
\* up to its Invocation
MaxAdvances == 10

\* next_phase advances the phase at most this many times in the long matches
\* of spell stacks
MaxLongAdvances == 26
\* argument ranges offered to the operations
MaxSlotArg == 1
MaxCopies == 2
\* the one negative copy count offered to activate_spell is -NegCopies
NegCopies == 21
\* activate_spell with a negative copy count can push aether above
\* max_aether and wizard_hp below 0 without limit: explored up to aether
\* AetherCap and wizard_hp -HpDebt
AetherCap == 21
HpDebt == 1
\* the policy on its own is consulted with hands of up to MaxPolicyHand
\* cards and up to MaxPolicyAether aether
MaxPolicyHand == 2
MaxPolicyAether == 3
\* and in round PolicyTurn of the match
PolicyTurn == 12

\* ------------------------------------------------------------------------
\* Program constants
\* ------------------------------------------------------------------------
player1_id == 1
player2_id == 2
Sides == {player1_id, player2_id}

StartHp == 20
MaxHp == 20
max_aether == 16
HandSize == 7
UpkeepAether == 2
AbilityAether == 1
NumSpiritSlots == 3
NumSpellSlots == 4
MaxStack == 3

\* class Phase: the enumeration order is the phase cycle
Phase == << "attunement", "memorization", "invocation", "respite" >>

PhaseIndex(ph) == CHOOSE i \in 1..Len(Phase) : Phase[i] = ph

\* ------------------------------------------------------------------------
\* Cards
\* ------------------------------------------------------------------------
\* The card library (card_manager.load_cards): the five default cards with
\* their effect keywords, with smaller numbers so that a match is short,
\* and cards as a user's spells.json may add them: spells with no effect
\* keyword, an area spell for another target, and an area spell that costs
\* one more than the healing spell (as the default Firestorm does). An absent keyword is FALSE / 0 / "", which is how dict.get
\* reads it.
CardLibrary ==
  [ golem  |-> [ name |-> "Stone Golem", type |-> "spirit", activation_cost |-> 1,
                 power |-> 2, defense |-> 1, hp |-> 2, scaling |-> 0,
                 direct_attack |-> FALSE, reduce_defense |-> 0,
                 prevent_defense_reduction |-> TRUE,
                 aoe_damage |-> FALSE, target |-> "", heal_wizard |-> 0, heal_spirit |-> 0 ],
    wyrm   |-> [ name |-> "Frost Wyrm", type |-> "spirit", activation_cost |-> 1,
                 power |-> 3, defense |-> 1, hp |-> 3, scaling |-> 0,
                 direct_attack |-> FALSE, reduce_defense |-> 1,
                 prevent_defense_reduction |-> FALSE,
                 aoe_damage |-> FALSE, target |-> "", heal_wizard |-> 0, heal_spirit |-> 0 ],
    dragon |-> [ name |-> "Inferno Dragon", type |-> "spirit", activation_cost |-> 2,
                 power |-> 20, defense |-> 0, hp |-> 4, scaling |-> 0,
                 direct_attack |-> TRUE, reduce_defense |-> 0,
                 prevent_defense_reduction |-> FALSE,
                 aoe_damage |-> FALSE, target |-> "", heal_wizard |-> 0, heal_spirit |-> 0 ],
    firestorm |-> [ name |-> "Firestorm", type |-> "spell", activation_cost |-> 1,
                 power |-> 0, defense |-> 0, hp |-> 0, scaling |-> 3,
                 direct_attack |-> FALSE, reduce_defense |-> 0,
                 prevent_defense_reduction |-> FALSE,
                 aoe_damage |-> TRUE, target |-> "enemy_spirits", heal_wizard |-> 0, heal_spirit |-> 0 ],
    healing_wave |-> [ name |-> "Healing Wave", type |-> "spell", activation_cost |-> 1,
                 power |-> 0, defense |-> 0, hp |-> 0, scaling |-> 0,
                 direct_attack |-> FALSE, reduce_defense |-> 0,
                 prevent_defense_reduction |-> FALSE,
                 aoe_damage |-> FALSE, target |-> "", heal_wizard |-> 1, heal_spirit |-> 4 ],
    cantrip |-> [ name |-> "Cantrip", type |-> "spell", activation_cost |-> 1,
                 power |-> 0, defense |-> 0, hp |-> 0, scaling |-> 0,
                 direct_attack |-> FALSE, reduce_defense |-> 0,
                 prevent_defense_reduction |-> FALSE,
                 aoe_damage |-> FALSE, target |-> "", heal_wizard |-> 0, heal_spirit |-> 0 ],
    shockwave |-> [ name |-> "Shockwave", type |-> "spell", activation_cost |-> 1,
                 power |-> 0, defense |-> 0, hp |-> 0, scaling |-> 3,
                 direct_attack |-> FALSE, reduce_defense |-> 0,
                 prevent_defense_reduction |-> FALSE,
                 aoe_damage |-> TRUE, target |-> "all_spirits", heal_wizard |-> 0, heal_spirit |-> 0 ],
    hex    |-> [ name |-> "Hex", type |-> "spell", activation_cost |-> 1,
                 power |-> 0, defense |-> 0, hp |-> 0, scaling |-> 0,
                 direct_attack |-> FALSE, reduce_defense |-> 0,
                 prevent_defense_reduction |-> FALSE,
                 aoe_damage |-> FALSE, target |-> "", heal_wizard |-> 0, heal_spirit |-> 0 ],
    meteor |-> [ name |-> "Meteor", type |-> "spell", activation_cost |-> 2,
                 power |-> 0, defense |-> 0, hp |-> 0, scaling |-> 4,
                 direct_attack |-> FALSE, reduce_defense |-> 0,
                 prevent_defense_reduction |-> FALSE,
                 aoe_damage |-> TRUE, target |-> "enemy_spirits", heal_wizard |-> 0, heal_spirit |-> 0 ] ]

CardIds == DOMAIN CardLibrary

CardNames == { CardLibrary[k].name : k \in CardIds }

\* Card.__init__ as called by CardManager.create_card_instance: a fresh
\* instance of library card k. The field id stands for the identity of the
\* Python object; current_hp starts at hp.
Card(k, id) ==
  [ id |-> id, name |-> CardLibrary[k].name, type |-> CardLibrary[k].type,
    activation_cost |-> CardLibrary[k].activation_cost,
    power |-> CardLibrary[k].power, defense |-> CardLibrary[k].defense,
    max_hp |-> CardLibrary[k].hp, current_hp |-> CardLibrary[k].hp,
    scaling |-> CardLibrary[k].scaling,
    direct_attack |-> CardLibrary[k].direct_attack,
    reduce_defense |-> CardLibrary[k].reduce_defense,
    prevent_defense_reduction |-> CardLibrary[k].prevent_defense_reduction,
    aoe_damage |-> CardLibrary[k].aoe_damage, target |-> CardLibrary[k].target,
    heal_wizard |-> CardLibrary[k].heal_wizard, heal_spirit |-> CardLibrary[k].heal_spirit ]

\* Python's None in a spirit slot
None == [ id |-> 0 ]

IsNone(c) == c.id = 0

\* ------------------------------------------------------------------------
\* Sequence helpers (Python list operations)
\* ------------------------------------------------------------------------
\* list.pop(i) for a 1-based position i: the list without that element
RemoveAt(s, i) == SubSeq(s, 1, i - 1) \o SubSeq(s, i + 1, Len(s))

\* list.pop(): the list without its last element
DropLast(s) == SubSeq(s, 1, Len(s) - 1)

Last(s) == s[Len(s)]

Min(a, b) == IF a < b THEN a ELSE b

Max(a, b) == IF a > b THEN a ELSE b

\* random.shuffle: every ordering of the list is a possible outcome
Shuffles(s) ==
  { [ i \in 1..Len(s) |-> s[f[i]] ] : f \in Permutations(1..Len(s)) }

CardsIn(s) == { s[i] : i \in 1..Len(s) }

\* ------------------------------------------------------------------------
\* Deck lists (the deck files read by _load_deck_for_user)
\* ------------------------------------------------------------------------
\* Each match is played with one pair of deck lists: library ids, spirits
\* first, then spells, one entry per copy.
DeckLists ==
  { << << "dragon" >>, << "dragon" >> >>,
    << << "firestorm", "firestorm", "healing_wave" >>, << >> >>,
    << << "firestorm" >>, << "golem" >> >> }

\* Deck lists for matches between spirits: a spirit with reduce_defense
\* against one it can weaken and against one that is immune, a spirit with
\* direct_attack against one without, a spell that has no effect, and a
\* deck longer than the starting hand
DuelLists ==
  { << << "wyrm" >>, << "wyrm" >> >>,
    << << "golem" >>, << "wyrm" >> >>,
    << << "wyrm" >>, << "dragon" >> >>,
    << << >>, << "cantrip" >> >>,
    << << >>, << "golem", "golem", "golem", "golem", "golem", "golem", "golem", "golem" >> >> }

\* Deck lists for a match of area spells: two copies of an area spell
\* against two spirits of different defense and health
AoeLists ==
  { << << "firestorm", "firestorm" >>, << "golem", "dragon" >> >> }

\* Deck lists for matches of the other spells: a healing spell against a
\* spirit that can wound the wizard, and a spell without effect keywords
\* cast while a spirit is on the board
SpellLists ==
  { << << "healing_wave" >>, << "golem" >> >>,
    << << "golem" >>, << "cantrip" >> >> }

\* Deck lists for the long matches of spell stacks: four copies of one
\* spell, enough to fill a stack and have a card left, and two spells of
\* different names
StackLists ==
  { << << "cantrip", "cantrip", "cantrip", "cantrip" >>, << >> >>,
    << << "cantrip", "hex" >>, << >> >> }

\* _load_deck_for_user: one new Card per entry. Instance ids are unique
\* across the match (side * 10 + position); they are given by position in
\* the deck as shuffled at match start, object identity being arbitrary.
LoadDeck(side, list) == [ i \in 1..Len(list) |-> Card(list[i], side * 10 + i) ]

\* PlayerState.__init__
PlayerState ==
  [ wizard_hp |-> StartHp, aether |-> 0,
    hand |-> << >>, deck |-> << >>, discard |-> << >>,
    spirit_slots |-> [ i \in 1..NumSpiritSlots |-> None ],
    spell_slots |-> [ i \in 1..NumSpellSlots |-> << >> ],
    wizard_ability_used |-> FALSE, placed_card_this_turn |-> FALSE ]

\* The starting-hand loop of initialize_decks on a shuffled deck d: pop
\* min(7, len) cards from the tail, appending each to the hand
\* (mutation) a starting hand of the whole deck
DrawCount_All(d) == Len(d)

DrawCount(d) == Min(HandSize, Len(d))

StartHand(d) == [ i \in 1..DrawCount(d) |-> d[Len(d) + 1 - i] ]

StartDeck(d) == SubSeq(d, 1, Len(d) - DrawCount(d))

\* ------------------------------------------------------------------------
\* State
\* ------------------------------------------------------------------------
VARIABLES
  players,            \* side -> PlayerState
  current_player_id,
  current_phase,
  turn_count,
  game_over,
  winner,             \* a side, or 0 for None
  lastCall,           \* the call whose (success, message) result the caller holds:
                      \* operation, acting side, success, message, the arguments
                      \* of a call that succeeded, game_over as it was when the
                      \* call was made and the whole match state as it was then;
                      \* NoCall between calls
  placements,         \* side -> number of successful summon / prepare /
                      \* replace / ability calls since that side's last upkeep
  dealt,              \* side -> ids of the card instances created for its deck
  ai                  \* the AI driver: where execute_ai_turn stands (pc), its
                      \* action_count, the number of activate_spell and
                      \* attack_with_spirit calls it has made in this pass and
                      \* the match state it was called in

game == << players, current_player_id, current_phase, turn_count, game_over, winner >>

vars == << players, current_player_id, current_phase, turn_count, game_over, winner,
           lastCall, placements, dealt, ai >>

\* the match state, as one value
Snapshot ==
  [ players |-> players, current_player_id |-> current_player_id,
    current_phase |-> current_phase, turn_count |-> turn_count,
    game_over |-> game_over, winner |-> winner ]

Call(op, side, args, r) ==
  [ op |-> op, side |-> side, ok |-> r.ok, message |-> r.message,
    args |-> IF r.ok THEN args ELSE << >>, over |-> game_over, before |-> Snapshot ]

NoCall == [ op |-> "none", side |-> 0, ok |-> TRUE, message |-> "", args |-> << >>,
           over |-> FALSE, before |-> [ players |-> << >> ] ]

\* execute_ai_turn is not running
AiIdle == [ pc |-> "idle", action_count |-> 0, calls |-> 0, before |-> [ players |-> << >> ] ]

\* ArcanaGame.__init__ followed by initialize_decks, for a match played
\* with one of the given pairs of deck lists
InitFrom(decklists) ==
  /\ \E lists \in decklists :
       /\ \E l1 \in Shuffles(lists[1]), l2 \in Shuffles(lists[2]) :
            players = [ s \in Sides |->
                        LET d == IF s = player1_id THEN LoadDeck(s, l1) ELSE LoadDeck(s, l2)
                        IN  [ PlayerState EXCEPT !.hand = StartHand(d),
                                                 !.deck = StartDeck(d) ] ]
       /\ dealt = [ s \in Sides |-> { s * 10 + i : i \in 1..Len(lists[s]) } ]
  /\ current_player_id = player1_id
  /\ current_phase = Phase[1]
  /\ turn_count = 1
  /\ game_over = FALSE
  /\ winner = 0
  /\ lastCall = NoCall
  /\ placements = [ s \in Sides |-> 0 ]
  /\ ai = AiIdle

Init == InitFrom(DeckLists)

InitDuel == InitFrom(DuelLists)

InitAoe == InitFrom(AoeLists)

InitSpells == InitFrom(SpellLists)

InitStacks == InitFrom(StackLists)

\* (mutation) an opponent lookup that returns the side it was given
get_opponent_id_Self(player_id) == player_id

get_opponent_id(player_id) ==
  IF player_id = player1_id THEN player2_id ELSE player1_id

\* ------------------------------------------------------------------------
\* Phase state machine
\* ------------------------------------------------------------------------
\* handle_attunement_phase for player state p, when the reshuffle (if one
\* happens) produces the ordering sh of the discard pile
\* (mutation) a reshuffle that leaves the discard pile as it was
Draw_KeepsDiscard(p, sh) ==
  IF p.deck # << >>
  THEN [ p EXCEPT !.hand = Append(p.hand, Last(p.deck)), !.deck = DropLast(p.deck) ]
  ELSE IF p.discard # << >>
       THEN [ p EXCEPT !.hand = Append(p.hand, Last(sh)), !.deck = DropLast(sh) ]
       ELSE p

Draw(p, sh) ==
  IF p.deck # << >>
  THEN [ p EXCEPT !.hand = Append(p.hand, Last(p.deck)), !.deck = DropLast(p.deck) ]
  ELSE IF p.discard # << >>
       THEN [ p EXCEPT !.hand = Append(p.hand, Last(sh)),
                       !.deck = DropLast(sh),
                       !.discard = << >> ]
       ELSE p

GainAether(p) == [ p EXCEPT !.aether = Min(p.aether + UpkeepAether, max_aether) ]

\* (mutation) an upkeep that forgets to reset wizard_ability_used
ResetFlags_KeepsAbility(p) == [ p EXCEPT !.placed_card_this_turn = FALSE ]

ResetFlags(p) == [ p EXCEPT !.wizard_ability_used = FALSE, !.placed_card_this_turn = FALSE ]

\* (mutation) an upkeep without the draw
handle_attunement_phase_NoDraw(p, sh) == ResetFlags(GainAether(p))

handle_attunement_phase(p, sh) == ResetFlags(GainAether(Draw(p, sh)))

\* how many times the turn has passed to the other side so far
Handovers ==
  2 * (turn_count - 1) + (IF current_player_id = player2_id THEN 1 ELSE 0)

\* how many times next_phase has advanced the phase so far
Advances == 4 * Handovers + PhaseIndex(current_phase) - 1

\* "if self.current_player_id == self.player1_id: self.turn_count += 1"
\* (mutation) a turn counter that counts every passing of the turn
NextTurnCount_EveryHandover(next) == turn_count + 1

NextTurnCount(next) == IF next = player1_id THEN turn_count + 1 ELSE turn_count

\* next_phase after its game_over check
AdvancePhaseWithin(limit) ==
  /\ Advances < limit
  /\ IF PhaseIndex(current_phase) = Len(Phase)
     THEN LET next == get_opponent_id(current_player_id)
          IN  /\ current_player_id' = next
              /\ current_phase' = Phase[1]
              /\ turn_count' = NextTurnCount(next)
              /\ \E sh \in Shuffles(players[next].discard) :
                   players' = [ players EXCEPT ![next] = handle_attunement_phase(@, sh) ]
              /\ placements' = [ placements EXCEPT ![next] = 0 ]
              /\ UNCHANGED << game_over, winner >>
     ELSE /\ current_phase' = Phase[PhaseIndex(current_phase) + 1]
          /\ UNCHANGED << players, current_player_id, turn_count, game_over, winner,
                          placements >>

AdvancePhase == AdvancePhaseWithin(MaxAdvances)

ReturnsNone == [ ok |-> TRUE, message |-> "" ]

\* (mutation) next_phase without the "if self.game_over: return"
next_phase_IgnoresGameOver ==
  /\ lastCall = NoCall
  /\ lastCall' = Call("next_phase", current_player_id, << >>, ReturnsNone)
  /\ UNCHANGED << dealt, ai >>
  /\ AdvancePhase

next_phase ==
  /\ lastCall = NoCall
  /\ lastCall' = Call("next_phase", current_player_id, << >>, ReturnsNone)
  /\ UNCHANGED << dealt, ai >>
  /\ IF game_over THEN UNCHANGED << game, placements >> ELSE AdvancePhase

\* next_phase in the long matches
next_phase_long ==
  /\ lastCall = NoCall
  /\ lastCall' = Call("next_phase", current_player_id, << >>, ReturnsNone)
  /\ UNCHANGED << dealt, ai >>
  /\ IF game_over THEN UNCHANGED << game, placements >>
     ELSE AdvancePhaseWithin(MaxLongAdvances)

\* ------------------------------------------------------------------------
\* Action Resolver
\* ------------------------------------------------------------------------
\* What a call returns and leaves behind: the success flag of the returned
\* (success, message) pair and the match state after the call
Fail(message) ==
  [ ok |-> FALSE, message |-> message,
    players |-> players, game_over |-> game_over, winner |-> winner ]

Done(ps, message) ==
  [ ok |-> TRUE, message |-> message,
    players |-> ps, game_over |-> game_over, winner |-> winner ]

\* The "find the card in hand" loop: position of the first card of the
\* given type and name, 0 when there is none
FindInHand(hand, type, name) ==
  LET hits == { i \in 1..Len(hand) : hand[i].type = type /\ hand[i].name = name }
  IN  IF hits = {} THEN 0 ELSE CHOOSE i \in hits : \A j \in hits : i <= j

\* (mutation) summon_spirit without the "Spirit slot is occupied" check
SummonCheck_AnySlot(player, card_index_in_hand, slot_index) ==
  IF player.placed_card_this_turn THEN "Already placed a card this turn"
  ELSE IF card_index_in_hand = 0 THEN "No card in hand"
  ELSE IF ~(0 <= slot_index /\ slot_index < Len(player.spirit_slots)) THEN "Invalid slot index"
  ELSE "ok"

SummonCheck(player, card_index_in_hand, slot_index) ==
  IF player.placed_card_this_turn THEN "Already placed a card this turn"
  ELSE IF card_index_in_hand = 0 THEN "No card in hand"
  ELSE IF ~(0 <= slot_index /\ slot_index < Len(player.spirit_slots)) THEN "Invalid slot index"
  ELSE IF ~IsNone(player.spirit_slots[slot_index + 1]) THEN "Spirit slot is occupied"
  ELSE "ok"

\* (mutation) a summon that also draws the top card of the deck
SummonEffect_Draws(player, card_index_in_hand, slot_index) ==
  LET drawn == IF player.deck # << >> THEN << Last(player.deck) >> ELSE << >>
  IN  [ player EXCEPT !.hand = RemoveAt(@, card_index_in_hand) \o drawn,
                      !.deck = IF player.deck # << >> THEN DropLast(@) ELSE @,
                      !.spirit_slots[slot_index + 1] = player.hand[card_index_in_hand],
                      !.placed_card_this_turn = TRUE ]

SummonEffect(player, card_index_in_hand, slot_index) ==
  [ player EXCEPT !.hand = RemoveAt(@, card_index_in_hand),
                  !.spirit_slots[slot_index + 1] = player.hand[card_index_in_hand],
                  !.placed_card_this_turn = TRUE ]

\* (mutation) summon_spirit without its phase check
summon_spirit_result_AnyPhase(player_id, spirit_name, slot_index) ==
  LET player == players[player_id]
      card_index_in_hand == FindInHand(player.hand, "spirit", spirit_name)
      check == SummonCheck(player, card_index_in_hand, slot_index)
  IN  IF check # "ok" THEN Fail(check)
      ELSE Done([ players EXCEPT ![player_id] =
                    SummonEffect(player, card_index_in_hand, slot_index) ],
                "Summoned")

summon_spirit_result(player_id, spirit_name, slot_index) ==
  LET player == players[player_id]
      card_index_in_hand == FindInHand(player.hand, "spirit", spirit_name)
      check == SummonCheck(player, card_index_in_hand, slot_index)
  IN  IF current_phase # "memorization"
      THEN Fail("Can only summon during memorization phase")
      ELSE IF check # "ok" THEN Fail(check)
      ELSE Done([ players EXCEPT ![player_id] =
                    SummonEffect(player, card_index_in_hand, slot_index) ],
                "Summoned")

\* (mutation) prepare_spell without the "Spell slot is full" check
PrepareCheck_NoLimit(player, spell_name, card_index_in_hand, slot_index) ==
  IF player.placed_card_this_turn THEN "Already placed a card this turn"
  ELSE IF card_index_in_hand = 0 THEN "No card in hand"
  ELSE IF ~(0 <= slot_index /\ slot_index < Len(player.spell_slots)) THEN "Invalid slot index"
  ELSE IF /\ player.spell_slots[slot_index + 1] # << >>
          /\ player.spell_slots[slot_index + 1][1].name # spell_name
       THEN "Can only stack identical spells"
  ELSE "ok"

\* (mutation) prepare_spell without the "identical spells" check
PrepareCheck_AnyName(player, spell_name, card_index_in_hand, slot_index) ==
  IF player.placed_card_this_turn THEN "Already placed a card this turn"
  ELSE IF card_index_in_hand = 0 THEN "No card in hand"
  ELSE IF ~(0 <= slot_index /\ slot_index < Len(player.spell_slots)) THEN "Invalid slot index"
  ELSE IF Len(player.spell_slots[slot_index + 1]) >= MaxStack THEN "Spell slot is full (max 3)"
  ELSE "ok"

PrepareCheck(player, spell_name, card_index_in_hand, slot_index) ==
  IF player.placed_card_this_turn THEN "Already placed a card this turn"
  ELSE IF card_index_in_hand = 0 THEN "No card in hand"
  ELSE IF ~(0 <= slot_index /\ slot_index < Len(player.spell_slots)) THEN "Invalid slot index"
  ELSE IF Len(player.spell_slots[slot_index + 1]) >= MaxStack THEN "Spell slot is full (max 3)"
  ELSE IF /\ player.spell_slots[slot_index + 1] # << >>
          /\ player.spell_slots[slot_index + 1][1].name # spell_name
       THEN "Can only stack identical spells"
  ELSE "ok"

PrepareEffect(player, card_index_in_hand, slot_index) ==
  [ player EXCEPT !.hand = RemoveAt(@, card_index_in_hand),
                  !.spell_slots[slot_index + 1] = Append(@, player.hand[card_index_in_hand]),
                  !.placed_card_this_turn = TRUE ]

prepare_spell_result(player_id, spell_name, slot_index) ==
  LET player == players[player_id]
      card_index_in_hand == FindInHand(player.hand, "spell", spell_name)
      check == PrepareCheck(player, spell_name, card_index_in_hand, slot_index)
  IN  IF current_phase # "memorization"
      THEN Fail("Can only prepare spells during memorization phase")
      ELSE IF check # "ok" THEN Fail(check)
      ELSE Done([ players EXCEPT ![player_id] =
                    PrepareEffect(player, card_index_in_hand, slot_index) ],
                "Prepared")

ReplaceCheck(player, card_index_in_hand, slot_index) ==
  IF player.placed_card_this_turn THEN "Already placed a card this turn"
  ELSE IF card_index_in_hand = 0 THEN "No card in hand"
  ELSE IF ~(0 <= slot_index /\ slot_index < Len(player.spell_slots)) THEN "Invalid spell slot index"
  ELSE "ok"

\* (mutation) a replacement that discards only the top card of the old stack
ReplaceEffect_TopOnly(player, card_index_in_hand, slot_index) ==
  [ player EXCEPT !.discard = IF player.spell_slots[slot_index + 1] = << >> THEN @
                              ELSE Append(@, Last(player.spell_slots[slot_index + 1])),
                  !.hand = RemoveAt(@, card_index_in_hand),
                  !.spell_slots[slot_index + 1] = << player.hand[card_index_in_hand] >>,
                  !.placed_card_this_turn = TRUE ]

\* the old stack goes to the discard pile in stack order, then the slot
\* starts a new one-card stack
ReplaceEffect(player, card_index_in_hand, slot_index) ==
  [ player EXCEPT !.discard = @ \o player.spell_slots[slot_index + 1],
                  !.hand = RemoveAt(@, card_index_in_hand),
                  !.spell_slots[slot_index + 1] = << player.hand[card_index_in_hand] >>,
                  !.placed_card_this_turn = TRUE ]

replace_spell_result(player_id, spell_name, slot_index) ==
  LET player == players[player_id]
      card_index_in_hand == FindInHand(player.hand, "spell", spell_name)
      check == ReplaceCheck(player, card_index_in_hand, slot_index)
  IN  IF current_phase # "memorization"
      THEN Fail("Can only replace spells during memorization phase")
      ELSE IF check # "ok" THEN Fail(check)
      ELSE Done([ players EXCEPT ![player_id] =
                    ReplaceEffect(player, card_index_in_hand, slot_index) ],
                "Replaced")

\* (mutation) an ability check that ignores the turn's placement
AbilityCheck_AbilityOnly(player) ==
  IF player.wizard_ability_used THEN "Wizard ability already used this turn"
  ELSE "ok"

AbilityCheck(player) ==
  IF player.placed_card_this_turn THEN "Already placed a card this turn"
  ELSE IF player.wizard_ability_used THEN "Wizard ability already used this turn"
  ELSE "ok"

\* (mutation) an ability that does not count as the turn's placement
AbilityEffect_NotAPlacement(player) ==
  [ player EXCEPT !.aether = Min(player.aether + AbilityAether, max_aether),
                  !.wizard_ability_used = TRUE ]

AbilityEffect(player) ==
  [ player EXCEPT !.aether = Min(player.aether + AbilityAether, max_aether),
                  !.wizard_ability_used = TRUE,
                  !.placed_card_this_turn = TRUE ]

use_wizard_ability_result(player_id) ==
  LET player == players[player_id]
  IN  IF current_phase # "memorization"
      THEN Fail("Can only use ability during memorization phase")
      ELSE IF AbilityCheck(player) # "ok" THEN Fail(AbilityCheck(player))
      ELSE Done([ players EXCEPT ![player_id] = AbilityEffect(player) ],
                "Wizard ability used! (Gained 1 Aether)")


\* --- activate_spell ------------------------------------------------------
\* "if copies_used > len(stack): copies_used = len(stack)"
ClampCopies(copies_used, stack) ==
  IF copies_used > Len(stack) THEN Len(stack) ELSE copies_used

\* (mutation) area damage that ignores the defense of the spirit it hits
AoeHit_IgnoresDefense(spirit, damage) ==
  [ spirit EXCEPT !.current_hp = @ - Max(0, damage) ]

\* one spirit taking the area damage
AoeHit(spirit, damage) ==
  [ spirit EXCEPT !.current_hp = @ - Max(0, damage - spirit.defense) ]

\* the aoe_damage loop over the opponent's spirit slots: every spirit is hit,
\* the destroyed ones go to the discard pile in slot order
AoeEffect(opponent, damage) ==
  LET hit == [ i \in 1..Len(opponent.spirit_slots) |->
                 IF IsNone(opponent.spirit_slots[i]) THEN None
                 ELSE AoeHit(opponent.spirit_slots[i], damage) ]
      destroyed(c) == ~IsNone(c) /\ c.current_hp <= 0
  IN  [ opponent EXCEPT
          !.spirit_slots = [ i \in 1..Len(hit) |-> IF destroyed(hit[i]) THEN None ELSE hit[i] ],
          !.discard = @ \o SelectSeq(hit, destroyed) ]

\* targets_hit: the number of opposing spirits the area damage reached
TargetsHit(opponent) ==
  Cardinality({ i \in 1..Len(opponent.spirit_slots) : ~IsNone(opponent.spirit_slots[i]) })

\* (mutation) a heal without the cap of 20
HealEffect_Uncapped(player, wizard_heal) ==
  [ player EXCEPT !.wizard_hp = player.wizard_hp + wizard_heal ]

HealEffect(player, wizard_heal) ==
  [ player EXCEPT !.wizard_hp = Min(MaxHp, player.wizard_hp + wizard_heal) ]

\* "for _ in range(copies_used): pop the stack into the discard pile"
\* (range of a negative number is empty)
PopCopies(player, slot_index, copies_used) ==
  LET stack == player.spell_slots[slot_index + 1]
      n == Min(Max(0, copies_used), Len(stack))
  IN  [ player EXCEPT
          !.spell_slots[slot_index + 1] = SubSeq(stack, 1, Len(stack) - n),
          !.discard = @ \o [ i \in 1..n |-> stack[Len(stack) + 1 - i] ] ]

\* "player.aether -= total_cost"
PayAether(player, cost) == [ player EXCEPT !.aether = @ - cost ]

\* "player.aether += ...  # Refund cost"
\* (mutation) a rejection that keeps the aether it took
Refund_Nothing(player, cost) == player

\* (mutation) a refund of twice the cost
Refund_Twice(player, cost) == [ player EXCEPT !.aether = @ + cost + cost ]

Refund(player, cost) == [ player EXCEPT !.aether = @ + cost ]

\* a "return False, message" after the match state has been written to
Rejected(ps, message) ==
  [ ok |-> FALSE, message |-> message,
    players |-> ps, game_over |-> game_over, winner |-> winner ]

activate_spell_result(player_id, slot_index, copies_used) ==
  LET player == players[player_id]
      opponent_id == get_opponent_id(player_id)
      opponent == players[opponent_id]
  IN  IF current_phase # "invocation"
      THEN Fail("Can only activate spells during invocation phase")
      ELSE IF ~(0 <= slot_index /\ slot_index < Len(player.spell_slots))
      THEN Fail("Invalid slot index")
      ELSE IF player.spell_slots[slot_index + 1] = << >>
      THEN Fail("No spells in that slot")
      ELSE
        LET stack == player.spell_slots[slot_index + 1]
            copies == ClampCopies(copies_used, stack)
            spell == stack[1]
            total_cost == spell.activation_cost * copies
            paid == PayAether(player, total_cost)
        IN  IF player.aether < total_cost THEN Fail("Not enough Aether")
            ELSE IF spell.aoe_damage /\ spell.target = "enemy_spirits"
                 THEN Done([ players EXCEPT
                               ![player_id] = PopCopies(paid, slot_index, copies),
                               ![opponent_id] = AoeEffect(opponent, spell.scaling * copies) ],
                           IF TargetsHit(opponent) = 0
                           THEN "cast, but no enemy spirits."
                           ELSE "Activated")
            ELSE IF spell.heal_wizard # 0
                 THEN Done([ players EXCEPT
                               ![player_id] = PopCopies(HealEffect(paid, spell.heal_wizard * copies),
                                                        slot_index, copies) ],
                           "Healed")
            ELSE Rejected([ players EXCEPT ![player_id] = Refund(paid, total_cost) ],
                          "Could not activate (no valid targets or effect?)")

\* --- attack_with_spirit --------------------------------------------------
\* any(opponent.spirit_slots)
\* (mutation) a Guard Rule that looks at the first spirit slot only
HasGuard_FirstSlotOnly(opponent) == ~IsNone(opponent.spirit_slots[1])

HasGuard(opponent) == \E i \in 1..Len(opponent.spirit_slots) : ~IsNone(opponent.spirit_slots[i])

\* (mutation) wizard damage taken from the attacker's cost
WizardDamage_FromCost(spirit) == Max(0, spirit.activation_cost)

WizardDamage(spirit) == Max(0, spirit.power)

SpiritDamage(spirit, target_spirit) == Max(0, spirit.power - target_spirit.defense)

\* the reduce_defense keyword, applied after the damage
ReduceDefense(spirit, target_spirit) ==
  IF spirit.reduce_defense # 0 /\ ~target_spirit.prevent_defense_reduction
  THEN [ target_spirit EXCEPT !.defense = Max(0, @ - spirit.reduce_defense) ]
  ELSE target_spirit

\* the spirit-target branch on the opponent's state
\* (mutation) the defense reduction applied before the damage is computed
SpiritAttackEffect_ReducesFirst(opponent, spirit, target_index) ==
  LET target_spirit == ReduceDefense(spirit, opponent.spirit_slots[target_index + 1])
      after == [ target_spirit EXCEPT !.current_hp = @ - SpiritDamage(spirit, target_spirit) ]
  IN  IF after.current_hp <= 0
      THEN [ opponent EXCEPT !.discard = Append(@, after),
                             !.spirit_slots[target_index + 1] = None ]
      ELSE [ opponent EXCEPT !.spirit_slots[target_index + 1] = after ]

SpiritAttackEffect(opponent, spirit, target_index) ==
  LET target_spirit == opponent.spirit_slots[target_index + 1]
      damaged == [ target_spirit EXCEPT !.current_hp = @ - SpiritDamage(spirit, target_spirit) ]
      after == ReduceDefense(spirit, damaged)
  IN  IF after.current_hp <= 0
      THEN [ opponent EXCEPT !.discard = Append(@, after),
                             !.spirit_slots[target_index + 1] = None ]
      ELSE [ opponent EXCEPT !.spirit_slots[target_index + 1] = after ]

\* target_index is optional (default None): NoIndex when it is not given,
\* << i >> when it is the integer i
NoIndex == << >>

\* "0 <= target_index" with target_index None raises TypeError: the call
\* returns nothing and the aether taken stays taken
TypeError == "TypeError: '<=' not supported between instances of 'int' and 'NoneType'"

attack_with_spirit_result(player_id, spirit_slot_index, target_type, target_index) ==
  LET player == players[player_id]
      opponent_id == get_opponent_id(player_id)
      opponent == players[opponent_id]
  IN  IF current_phase # "invocation"
      THEN Fail("Can only attack during invocation phase")
      ELSE IF ~(0 <= spirit_slot_index /\ spirit_slot_index < Len(player.spirit_slots))
      THEN Fail("Invalid attacker slot")
      ELSE IF IsNone(player.spirit_slots[spirit_slot_index + 1])
      THEN Fail("No spirit in that slot")
      ELSE
        LET spirit == player.spirit_slots[spirit_slot_index + 1]
            paid == PayAether(player, spirit.activation_cost)
            refunded == [ players EXCEPT
                            ![player_id] = Refund(paid, spirit.activation_cost) ]
        IN  IF player.aether < spirit.activation_cost THEN Fail("Not enough Aether")
            ELSE IF target_type = "wizard"
            THEN IF HasGuard(opponent) /\ ~spirit.direct_attack
                 THEN Rejected(refunded, "Cannot attack wizard (Guard Rule)")
                 ELSE LET hp == opponent.wizard_hp - WizardDamage(spirit)
                      IN  IF hp <= 0
                          THEN [ ok |-> TRUE, message |-> "attacked wizard",
                                 players |-> [ players EXCEPT ![player_id] = paid,
                                                              ![opponent_id].wizard_hp = 0 ],
                                 game_over |-> TRUE, winner |-> player_id ]
                          ELSE Done([ players EXCEPT ![player_id] = paid,
                                                     ![opponent_id].wizard_hp = hp ],
                                    "attacked wizard")
            ELSE IF target_type = "spirit"
            THEN IF target_index = NoIndex
                 THEN Rejected([ players EXCEPT ![player_id] = paid ], TypeError)
                 ELSE IF ~(0 <= target_index[1] /\ target_index[1] < Len(opponent.spirit_slots))
                 THEN Rejected(refunded, "Invalid target slot")
                 ELSE IF IsNone(opponent.spirit_slots[target_index[1] + 1])
                 THEN Rejected(refunded, "No spirit in target slot")
                 ELSE Done([ players EXCEPT
                               ![player_id] = paid,
                               ![opponent_id] =
                                 SpiritAttackEffect(opponent, spirit, target_index[1]) ],
                           "attacked spirit")
            ELSE Rejected(refunded, "Invalid target type")

\* ------------------------------------------------------------------------
\* The operations as steps of the match: any caller may call any operation
\* for either side with any arguments at any time
\* ------------------------------------------------------------------------
SpiritSlotArgs == -1..MaxSlotArg \cup {NumSpiritSlots}

SpellSlotArgs == -1..MaxSlotArg \cup {NumSpellSlots}

CopiesArgs == {0 - NegCopies} \cup 0..MaxCopies

\* card names offered to a side's calls: the names of the cards in its hand
\* and one library name that is not in its hand (the "find the card in
\* hand" loop ends the same way for every name that is not there)
NameArgs(player_id) ==
  LET held == { c.name : c \in CardsIn(players[player_id].hand) }
  IN  held \cup { CHOOSE n \in CardNames : n \notin held }

\* (target_type, target_index); callers give no index with "wizard"
Targets ==
  { << "wizard", NoIndex >>, << "deck", NoIndex >>, << "spirit", NoIndex >> }
    \cup { << "spirit", << i >> >> : i \in SpiritSlotArgs }

\* a call's return value and state change
Apply(op, player_id, args, r) ==
  /\ lastCall = NoCall
  /\ lastCall' = Call(op, player_id, args, r)
  /\ players' = r.players
  /\ game_over' = r.game_over
  /\ winner' = r.winner
  /\ UNCHANGED << current_player_id, current_phase, turn_count, dealt, ai >>

Placed(player_id, r) ==
  placements' = IF r.ok THEN [ placements EXCEPT ![player_id] = @ + 1 ] ELSE placements

summon_spirit ==
  \E player_id \in Sides, slot_index \in SpiritSlotArgs :
  \E spirit_name \in NameArgs(player_id) :
    LET r == summon_spirit_result(player_id, spirit_name, slot_index)
    IN  /\ Apply("summon_spirit", player_id, << spirit_name, slot_index >>, r)
        /\ Placed(player_id, r)

prepare_spell ==
  \E player_id \in Sides, slot_index \in SpellSlotArgs :
  \E spell_name \in NameArgs(player_id) :
    LET r == prepare_spell_result(player_id, spell_name, slot_index)
    IN  /\ Apply("prepare_spell", player_id, << spell_name, slot_index >>, r)
        /\ Placed(player_id, r)

replace_spell ==
  \E player_id \in Sides, slot_index \in SpellSlotArgs :
  \E spell_name \in NameArgs(player_id) :
    LET r == replace_spell_result(player_id, spell_name, slot_index)
    IN  /\ Apply("replace_spell", player_id, << spell_name, slot_index >>, r)
        /\ Placed(player_id, r)

use_wizard_ability ==
  \E player_id \in Sides :
    LET r == use_wizard_ability_result(player_id)
    IN  Apply("use_wizard_ability", player_id, << >>, r) /\ Placed(player_id, r)

activate_spell_from(copies) ==
  \E player_id \in Sides, slot_index \in SpellSlotArgs, copies_used \in copies :
    LET r == activate_spell_result(player_id, slot_index, copies_used)
    IN  /\ r.players[player_id].aether <= AetherCap
        /\ r.players[player_id].wizard_hp >= 0 - HpDebt
        /\ Apply("activate_spell", player_id, << slot_index, copies_used >>, r)
        /\ UNCHANGED placements

activate_spell == activate_spell_from(CopiesArgs)

\* activate_spell as the callers in this repository call it: the AI
\* drivers pass a copy count of at least 1, never a negative one
activate_spell_counted == activate_spell_from(0..MaxCopies)

attack_with_spirit ==
  \E player_id \in Sides, spirit_slot_index \in SpiritSlotArgs, target \in Targets :
    LET r == attack_with_spirit_result(player_id, spirit_slot_index, target[1], target[2])
    IN  /\ Apply("attack_with_spirit", player_id,
                 << spirit_slot_index, target[1], target[2] >>, r)
        /\ UNCHANGED placements

\* The engine is driven synchronously: the caller takes the (success,
\* message) pair a call returned before it makes the next call
call_returns ==
  /\ lastCall # NoCall
  /\ lastCall' = NoCall
  /\ UNCHANGED << game, placements, dealt, ai >>

Next ==
  \/ call_returns
  \/ next_phase
  \/ summon_spirit
  \/ prepare_spell
  \/ replace_spell
  \/ use_wizard_ability
  \/ activate_spell
  \/ attack_with_spirit

Spec == Init /\ [][Next]_vars

\* The same match when no caller passes a negative copy count
NextCounted ==
  \/ call_returns
  \/ next_phase
  \/ summon_spirit
  \/ prepare_spell
  \/ replace_spell
  \/ use_wizard_ability
  \/ activate_spell_counted
  \/ attack_with_spirit

SpecCounted == Init /\ [][NextCounted]_vars

\* The match between spirit decks
SpecDuel == InitDuel /\ [][Next]_vars

\* The match of area spells, activated with copy counts of at least 0
SpecAoe == InitAoe /\ [][NextCounted]_vars

\* The matches of healing spells and of spells without effect
SpecSpells == InitSpells /\ [][Next]_vars

\* The long matches of spell stacks
NextLong ==
  \/ call_returns
  \/ next_phase_long
  \/ summon_spirit
  \/ prepare_spell
  \/ replace_spell
  \/ use_wizard_ability
  \/ activate_spell
  \/ attack_with_spirit

SpecStacks == InitStacks /\ [][NextLong]_vars


\* ========================================================================
\* The AI opponent (src/discord_ai_controller.py)
\* ========================================================================
\* bot.py creates the match with the challenger as player 1 and the bot as
\* player 2, and the controller with the bot's id and the default difficulty
bot_id == player2_id

difficulty == "medium"

max_actions == 10

\* a wizard attack is worth making with at least this much power
StrongPower == 4

\* the AI heals its wizard at or below this much health
LowHp == 10

\* a move as get_move returns it
Move(type, name, slot_index, copies_used, target_type, target_index) ==
  [ type |-> type, name |-> name, slot_index |-> slot_index, copies_used |-> copies_used,
    target_type |-> target_type, target_index |-> target_index ]

AdvanceMove == Move("advance_phase", "", 0, 0, "", NoIndex)

\* the least element of a non-empty set of positions: the first one a
\* for loop over the list reaches
First(S) == CHOOSE i \in S : \A j \in S : i <= j

\* "any(opponent.spirit_slots)"
HasSpirits(p) == \E i \in 1..Len(p.spirit_slots) : ~IsNone(p.spirit_slots[i])

\* score_spirit, times 4 (the code adds max_hp / 4)
score_spirit(spirit) ==
  4 * (spirit.power + spirit.defense) + spirit.max_hp
    + (IF spirit.direct_attack THEN 8 ELSE 0)
    + (IF spirit.reduce_defense # 0 THEN 4 ELSE 0)

\* max(list, key): the first element of the list with the greatest key
choose_best_spirit(spirits) ==
  spirits[First({ i \in 1..Len(spirits) :
                    \A j \in 1..Len(spirits) : score_spirit(spirits[j]) <= score_spirit(spirits[i]) })]

score_spell(spell, opponent) ==
  (IF spell.aoe_damage /\ HasSpirits(opponent) THEN spell.scaling * 2
   ELSE spell.heal_wizard) - spell.activation_cost

choose_best_spell(spells, opponent) ==
  spells[First({ i \in 1..Len(spells) :
                   \A j \in 1..Len(spells) :
                     score_spell(spells[j], opponent) <= score_spell(spells[i], opponent) })]

\* the score find_weakest_spell_slot gives a stack
weak_score(stack) ==
  stack[1].activation_cost + (IF stack[1].heal_wizard # 0 THEN 1 ELSE 0)

\* (mutation) a search for the stack of least activation cost
find_weakest_spell_slot_ByCost(spell_slots) ==
  LET filled == { k \in 1..Len(spell_slots) : spell_slots[k] # << >> }
  IN  IF filled = {} THEN -1
      ELSE First({ k \in filled :
                     \A j \in filled :
                       spell_slots[k][1].activation_cost <= spell_slots[j][1].activation_cost }) - 1

\* the 0-based index of the first non-empty stack of least score, or -1
\* for None
find_weakest_spell_slot(spell_slots) ==
  LET filled == { k \in 1..Len(spell_slots) : spell_slots[k] # << >> }
  IN  IF filled = {} THEN -1
      ELSE First({ k \in filled :
                     \A j \in filled : weak_score(spell_slots[k]) <= weak_score(spell_slots[j]) }) - 1

\* the position in the list of the first spell that is cheaper or scales
\* higher than current_spell, or 0 for None
find_better_spell(hand, current_spell) ==
  LET better == { i \in 1..Len(hand) :
                    /\ hand[i].type = "spell"
                    /\ \/ hand[i].activation_cost < current_spell.activation_cost
                       \/ hand[i].scaling > current_spell.scaling }
  IN  IF better = {} THEN 0 ELSE First(better)

\* (mutation) a target search that judges the kill by the attacker's power
\* alone, without the defender's defense
find_best_attack_target_IgnoresDefense(attacker, opponent_spirits) ==
  LET Best[i \in 0..Len(opponent_spirits)] ==
        IF i = 0 THEN [ score |-> -1, slot |-> -1, can_kill |-> FALSE ]
        ELSE LET defender == opponent_spirits[i]
                 damage == Max(0, attacker.power - defender.defense)
                 can_kill == attacker.power >= defender.current_hp
                 score == (IF can_kill THEN 10 ELSE 0) + damage - defender.power
             IN  IF ~IsNone(defender) /\ score > Best[i - 1].score
                 THEN [ score |-> score, slot |-> i - 1, can_kill |-> can_kill ]
                 ELSE Best[i - 1]
  IN  Best[Len(opponent_spirits)]

\* find_best_attack_target: the loop over the opponent's slots, keeping the
\* first target of the greatest score above -1; slot -1 stands for None
find_best_attack_target(attacker, opponent_spirits) ==
  LET Best[i \in 0..Len(opponent_spirits)] ==
        IF i = 0 THEN [ score |-> -1, slot |-> -1, can_kill |-> FALSE ]
        ELSE LET defender == opponent_spirits[i]
                 damage == Max(0, attacker.power - defender.defense)
                 can_kill == damage >= defender.current_hp
                 score == (IF can_kill THEN 10 ELSE 0) + damage - defender.power
             IN  IF ~IsNone(defender) /\ score > Best[i - 1].score
                 THEN [ score |-> score, slot |-> i - 1, can_kill |-> can_kill ]
                 ELSE Best[i - 1]
  IN  Best[Len(opponent_spirits)]

\* --- get_memorization_move -----------------------------------------------
\* (mutation) a policy without the "stack existing spells first" loop
get_memorization_move_NeverStacks(player, opponent) ==
  LET empty_spirit_slots == { i \in 1..Len(player.spirit_slots) : IsNone(player.spirit_slots[i]) }
      spirits_in_hand == SelectSeq(player.hand, LAMBDA c : c.type = "spirit")
      spells_in_hand == SelectSeq(player.hand, LAMBDA c : c.type = "spell")
      stackable == {}
      empty_spell_slots == { k \in 1..Len(player.spell_slots) : player.spell_slots[k] = << >> }
      weakest_slot == find_weakest_spell_slot(player.spell_slots)
      better_spell ==
        IF weakest_slot = -1 THEN 0
        ELSE find_better_spell(spells_in_hand, player.spell_slots[weakest_slot + 1][1])
  IN  IF empty_spirit_slots # {} /\ spirits_in_hand # << >>
      THEN Move("summon_spirit", choose_best_spirit(spirits_in_hand).name,
                First(empty_spirit_slots) - 1, 0, "", NoIndex)
      ELSE IF spells_in_hand # << >> /\ stackable # {}
      THEN Move("prepare_spell", player.spell_slots[First(stackable)][1].name,
                First(stackable) - 1, 0, "", NoIndex)
      ELSE IF spells_in_hand # << >> /\ empty_spell_slots # {}
      THEN Move("prepare_spell", choose_best_spell(spells_in_hand, opponent).name,
                First(empty_spell_slots) - 1, 0, "", NoIndex)
      ELSE IF spells_in_hand # << >> /\ better_spell # 0
      THEN Move("replace_spell", spells_in_hand[better_spell].name, weakest_slot, 0, "", NoIndex)
      ELSE AdvanceMove

get_memorization_move(player, opponent) ==
  LET empty_spirit_slots == { i \in 1..Len(player.spirit_slots) : IsNone(player.spirit_slots[i]) }
      spirits_in_hand == SelectSeq(player.hand, LAMBDA c : c.type = "spirit")
      spells_in_hand == SelectSeq(player.hand, LAMBDA c : c.type = "spell")
      \* stacks of 1 or 2 cards for which the hand holds a spell of that name
      stackable == { k \in 1..Len(player.spell_slots) :
                       /\ player.spell_slots[k] # << >>
                       /\ Len(player.spell_slots[k]) < MaxStack
                       /\ \E i \in 1..Len(spells_in_hand) :
                            spells_in_hand[i].name = player.spell_slots[k][1].name }
      empty_spell_slots == { k \in 1..Len(player.spell_slots) : player.spell_slots[k] = << >> }
      weakest_slot == find_weakest_spell_slot(player.spell_slots)
      better_spell ==
        IF weakest_slot = -1 THEN 0
        ELSE find_better_spell(spells_in_hand, player.spell_slots[weakest_slot + 1][1])
  IN  IF empty_spirit_slots # {} /\ spirits_in_hand # << >>
      THEN Move("summon_spirit", choose_best_spirit(spirits_in_hand).name,
                First(empty_spirit_slots) - 1, 0, "", NoIndex)
      ELSE IF spells_in_hand # << >> /\ stackable # {}
      THEN Move("prepare_spell", player.spell_slots[First(stackable)][1].name,
                First(stackable) - 1, 0, "", NoIndex)
      ELSE IF spells_in_hand # << >> /\ empty_spell_slots # {}
      THEN Move("prepare_spell", choose_best_spell(spells_in_hand, opponent).name,
                First(empty_spell_slots) - 1, 0, "", NoIndex)
      ELSE IF spells_in_hand # << >> /\ better_spell # 0
      THEN Move("replace_spell", spells_in_hand[better_spell].name, weakest_slot, 0, "", NoIndex)
      ELSE AdvanceMove

\* --- get_invocation_move -------------------------------------------------
\* (mutation) a copy count that does not look at the aether
max_copies_WholeStack(player, stack) == Len(stack)

\* "max_copies = min(len(spell_stack), player.aether // spell.activation_cost)"
max_copies(player, stack) ==
  Min(Len(stack), player.aether \div stack[1].activation_cost)

\* "spell.effects.get(keyword)" as a condition, for the two keywords the
\* policy asks for
HasKeyword(spell, keyword) ==
  IF keyword = "aoe_damage" THEN spell.aoe_damage ELSE spell.heal_wizard # 0

\* the stacks one of the two activation loops would activate: the card
\* has the keyword, the side can pay for one copy and max_copies > 0
Castable(player, keyword) ==
  { k \in 1..Len(player.spell_slots) :
      /\ player.spell_slots[k] # << >>
      /\ HasKeyword(player.spell_slots[k][1], keyword)
      /\ player.aether >= player.spell_slots[k][1].activation_cost
      /\ max_copies(player, player.spell_slots[k]) > 0 }

\* one pass of the attack loop's body for the spirit in slot i (1-based):
\* the move it returns, or AdvanceMove when it returns nothing
AttackMove(player, opponent, i) ==
  LET spirit == player.spirit_slots[i]
      can_attack_directly == ~HasSpirits(opponent) \/ spirit.direct_attack
      target_info == find_best_attack_target(spirit, opponent.spirit_slots)
  IN  IF IsNone(spirit) \/ player.aether < spirit.activation_cost THEN AdvanceMove
      ELSE IF /\ can_attack_directly
              /\ (spirit.power >= opponent.wizard_hp \/ spirit.power >= StrongPower)
      THEN Move("attack", "", i - 1, 0, "wizard", NoIndex)
      ELSE IF /\ HasSpirits(opponent)
              /\ target_info.slot # -1
              /\ (target_info.can_kill \/ difficulty = "easy")
      THEN Move("attack", "", i - 1, 0, "spirit", << target_info.slot >>)
      ELSE AdvanceMove

\* (mutation) a policy that looks at its healing spells first
get_invocation_move_HealsFirst(player, opponent) ==
  LET damaging == Castable(player, "aoe_damage")
      healing == Castable(player, "heal_wizard")
      attackers == { i \in 1..Len(player.spirit_slots) :
                       AttackMove(player, opponent, i) # AdvanceMove }
  IN  IF player.wizard_hp <= LowHp /\ healing # {}
      THEN Move("activate_spell", "", First(healing) - 1,
                max_copies(player, player.spell_slots[First(healing)]), "", NoIndex)
      ELSE IF HasSpirits(opponent) /\ damaging # {}
      THEN Move("activate_spell", "", First(damaging) - 1,
                max_copies(player, player.spell_slots[First(damaging)]), "", NoIndex)
      ELSE IF attackers # {} THEN AttackMove(player, opponent, First(attackers))
      ELSE AdvanceMove

get_invocation_move(player, opponent) ==
  LET damaging == Castable(player, "aoe_damage")
      healing == Castable(player, "heal_wizard")
      attackers == { i \in 1..Len(player.spirit_slots) :
                       AttackMove(player, opponent, i) # AdvanceMove }
  IN  IF HasSpirits(opponent) /\ damaging # {}
      THEN Move("activate_spell", "", First(damaging) - 1,
                max_copies(player, player.spell_slots[First(damaging)]), "", NoIndex)
      ELSE IF player.wizard_hp <= LowHp /\ healing # {}
      THEN Move("activate_spell", "", First(healing) - 1,
                max_copies(player, player.spell_slots[First(healing)]), "", NoIndex)
      ELSE IF attackers # {} THEN AttackMove(player, opponent, First(attackers))
      ELSE AdvanceMove

get_move ==
  LET player_state == players[bot_id]
      opponent_state == players[get_opponent_id(bot_id)]
  IN  IF current_phase = "memorization"
      THEN IF player_state.placed_card_this_turn THEN AdvanceMove
           ELSE get_memorization_move(player_state, opponent_state)
      ELSE IF current_phase = "invocation"
      THEN get_invocation_move(player_state, opponent_state)
      ELSE AdvanceMove


\* --- execute_ai_turn -----------------------------------------------------
\* Deck lists of the matches against the AI: a spirit against a spell
\* that carries aoe_damage for a target the engine does not resolve, two
\* spirits that can attack the wizard directly, and a spirit against an
\* area spell
AiLists ==
  { << << "golem" >>, << "shockwave" >> >>,
    << << "dragon" >>, << "dragon" >> >>,
    << << "golem" >>, << "firestorm" >> >> }

InitAi == InitFrom(AiLists)

\* Deck lists of the matches in which the AI's spirit meets opposing
\* spirits: one it can destroy with one attack and one it cannot, and a
\* match in which its pass runs into the cap on actions
AiDuelLists ==
  { << << "golem" >>, << "wyrm" >> >>,
    << << "wyrm" >>, << "wyrm" >> >>,
    << << "golem" >>, << "shockwave" >> >> }

InitAiDuel == InitFrom(AiDuelLists)

\* "while current_player_id == bot_id and not game_over and action_count < max_actions"
\* (mutation) a loop without the cap on action_count
LoopCondition_NoCap ==
  /\ current_player_id = bot_id
  /\ ~game_over

LoopCondition ==
  /\ current_player_id = bot_id
  /\ ~game_over
  /\ ai.action_count < max_actions

\* next_phase as the driver calls it: the result is not looked at
AiNextPhase == IF game_over THEN UNCHANGED << game, placements >> ELSE AdvancePhase

\* a resolver call of the driver: it applies the call and drops the
\* (success, message) pair
AiApply(r) ==
  /\ players' = r.players
  /\ game_over' = r.game_over
  /\ winner' = r.winner
  /\ UNCHANGED << current_player_id, current_phase, turn_count >>

\* the safety net's test after the loop
\* (mutation) a driver without the safety net
NeedsHandBack_Never == FALSE

NeedsHandBack ==
  /\ current_player_id = bot_id
  /\ ~game_over
  /\ current_phase # "attunement"

\* the driver returns to its caller
AiReturns ==
  /\ ai' = AiIdle
  /\ lastCall' = [ op |-> "execute_ai_turn", side |-> bot_id, ok |-> TRUE, message |-> "",
                   args |-> << ai.calls >>, over |-> ai.before.game_over,
                   before |-> ai.before ]

\* a caller calls execute_ai_turn. (A pass is started on the AI's turn only
\* while the bound on phase advances leaves room for the turn to end.)
execute_ai_turn ==
  /\ ai.pc = "idle"
  /\ lastCall = NoCall
  /\ current_player_id = bot_id => 4 * (Handovers + 1) <= MaxAdvances
  /\ ai' = [ pc |-> "loop", action_count |-> 0, calls |-> 0, before |-> Snapshot ]
  /\ UNCHANGED << game, lastCall, placements, dealt >>

\* the loop condition is false: on to the safety net
ai_loop_exit ==
  /\ ai.pc = "loop"
  /\ ~LoopCondition
  /\ ai' = [ ai EXCEPT !.pc = "after_loop" ]
  /\ UNCHANGED << game, lastCall, placements, dealt >>

\* "if current_phase in [ATTAINMENT, RESPITE]: next_phase(); continue"
ai_auto_advance ==
  /\ ai.pc = "loop"
  /\ LoopCondition
  /\ current_phase \in { "attunement", "respite" }
  /\ AiNextPhase
  /\ UNCHANGED << ai, lastCall, dealt >>

\* move "advance_phase": next_phase; if that lands on Respite the driver
\* goes on to advance once more, else the iteration ends with
\* action_count += 1
ai_advance_phase ==
  /\ ai.pc = "loop"
  /\ LoopCondition
  /\ current_phase \notin { "attunement", "respite" }
  /\ get_move.type = "advance_phase"
  /\ AiNextPhase
  /\ ai' = IF current_phase' = "respite"
           THEN [ ai EXCEPT !.pc = "end_turn" ]
           ELSE [ ai EXCEPT !.action_count = @ + 1 ]
  /\ UNCHANGED << lastCall, dealt >>

\* "next_phase(); break" after an advance that landed on Respite
ai_end_turn ==
  /\ ai.pc = "end_turn"
  /\ AiNextPhase
  /\ ai' = [ ai EXCEPT !.pc = "after_loop" ]
  /\ UNCHANGED << lastCall, dealt >>

\* moves "summon_spirit", "prepare_spell" and "replace_spell": the call,
\* with next_phase still to come
ai_place ==
  /\ ai.pc = "loop"
  /\ LoopCondition
  /\ current_phase \notin { "attunement", "respite" }
  /\ LET move == get_move
         r == IF move.type = "summon_spirit"
              THEN summon_spirit_result(bot_id, move.name, move.slot_index)
              ELSE IF move.type = "prepare_spell"
              THEN prepare_spell_result(bot_id, move.name, move.slot_index)
              ELSE replace_spell_result(bot_id, move.name, move.slot_index)
     IN  /\ move.type \in { "summon_spirit", "prepare_spell", "replace_spell" }
         /\ AiApply(r)
         /\ Placed(bot_id, r)
  /\ ai' = [ ai EXCEPT !.pc = "placed" ]
  /\ UNCHANGED << lastCall, dealt >>

\* (mutation) the driver leaving its loop after a placement ("break")
ai_after_place_Breaks ==
  /\ ai.pc = "placed"
  /\ AiNextPhase
  /\ ai' = [ ai EXCEPT !.pc = "after_loop" ]
  /\ UNCHANGED << lastCall, dealt >>

\* "next_phase(); continue" after a placement
ai_after_place ==
  /\ ai.pc = "placed"
  /\ AiNextPhase
  /\ ai' = [ ai EXCEPT !.pc = "loop" ]
  /\ UNCHANGED << lastCall, dealt >>

\* moves "activate_spell" and "attack": the call, action_count += 1, and
\* "if game_over: break"
ai_act ==
  /\ ai.pc = "loop"
  /\ LoopCondition
  /\ current_phase \notin { "attunement", "respite" }
  /\ LET move == get_move
         r == IF move.type = "activate_spell"
              THEN activate_spell_result(bot_id, move.slot_index, move.copies_used)
              ELSE attack_with_spirit_result(bot_id, move.slot_index, move.target_type,
                                             move.target_index)
     IN  /\ move.type \in { "activate_spell", "attack" }
         /\ AiApply(r)
         /\ ai' = [ ai EXCEPT !.action_count = @ + 1, !.calls = @ + 1,
                              !.pc = IF r.game_over THEN "after_loop" ELSE "loop" ]
  /\ UNCHANGED << lastCall, placements, dealt >>

\* after the loop, nothing to hand back: return
ai_return ==
  /\ ai.pc = "after_loop"
  /\ ~NeedsHandBack
  /\ AiReturns
  /\ UNCHANGED << game, placements, dealt >>

\* the safety net: "game.current_phase = Phase.RESPITE" ...
ai_force_respite ==
  /\ ai.pc = "after_loop"
  /\ NeedsHandBack
  /\ current_phase' = "respite"
  /\ ai' = [ ai EXCEPT !.pc = "hand_back" ]
  /\ UNCHANGED << players, current_player_id, turn_count, game_over, winner,
                  lastCall, placements, dealt >>

\* ... "game.next_phase()", and return
ai_hand_back ==
  /\ ai.pc = "hand_back"
  /\ AiNextPhase
  /\ AiReturns
  /\ UNCHANGED dealt

\* one step of execute_ai_turn
AiStep ==
  \/ ai_loop_exit
  \/ ai_auto_advance
  \/ ai_advance_phase
  \/ ai_end_turn
  \/ ai_place
  \/ ai_after_place
  \/ ai_act
  \/ ai_return
  \/ ai_force_respite
  \/ ai_hand_back

\* The match against the AI: the resolver and next_phase are called as
\* before while execute_ai_turn is not running (it runs synchronously)
NextAi ==
  \/ ai.pc = "idle" /\ call_returns
  \/ ai.pc = "idle" /\ next_phase
  \/ ai.pc = "idle" /\ summon_spirit
  \/ ai.pc = "idle" /\ prepare_spell
  \/ ai.pc = "idle" /\ replace_spell
  \/ ai.pc = "idle" /\ use_wizard_ability
  \/ ai.pc = "idle" /\ activate_spell
  \/ ai.pc = "idle" /\ attack_with_spirit
  \/ execute_ai_turn
  \/ ai_loop_exit
  \/ ai_auto_advance
  \/ ai_advance_phase
  \/ ai_end_turn
  \/ ai_place
  \/ ai_after_place
  \/ ai_act
  \/ ai_return
  \/ ai_force_respite
  \/ ai_hand_back

SpecAi == InitAi /\ [][NextAi]_vars

\* The match of the AI's spirit against opposing spirits
SpecAiDuel == InitAiDuel /\ [][NextAi]_vars

\* execute_ai_turn is ordinary sequential code: once called it keeps
\* taking its next step
SpecAiLive == SpecAi /\ WF_vars(AiStep)

\* --- AIController.execute_ai_turn (ai_controller.py) -----------------------
\* The driver of the local game is the same loop around the same policy,
\* with "npc" for the bot's id, except for what follows a placement:
\* "game.next_phase()" and then "break", which leaves the loop for the
\* safety net.
npc_after_place ==
  /\ ai.pc = "placed"
  /\ AiNextPhase
  /\ ai' = [ ai EXCEPT !.pc = "after_loop" ]
  /\ UNCHANGED << lastCall, dealt >>

NextLocal ==
  \/ ai.pc = "idle" /\ call_returns
  \/ ai.pc = "idle" /\ next_phase
  \/ ai.pc = "idle" /\ summon_spirit
  \/ ai.pc = "idle" /\ prepare_spell
  \/ ai.pc = "idle" /\ replace_spell
  \/ ai.pc = "idle" /\ use_wizard_ability
  \/ ai.pc = "idle" /\ activate_spell
  \/ ai.pc = "idle" /\ attack_with_spirit
  \/ execute_ai_turn
  \/ ai_loop_exit
  \/ ai_auto_advance
  \/ ai_advance_phase
  \/ ai_end_turn
  \/ ai_place
  \/ npc_after_place
  \/ ai_act
  \/ ai_return
  \/ ai_force_respite
  \/ ai_hand_back

SpecLocal == InitAi /\ [][NextLocal]_vars

\* --- the decision policy on its own ---------------------------------------
\* The states the policy is consulted in, drawn from bounded sets: the bot
\* (player 2) is to move in round PolicyTurn, by which it has had that many
\* placements, and holds a hand of up to MaxPolicyHand cards, one of the
\* boards below and up to MaxPolicyAether aether.

PolicyHandKinds == { "golem", "dragon", "firestorm", "healing_wave", "cantrip", "meteor" }

PolicyHands ==
  UNION { [ 1..n -> PolicyHandKinds ] : n \in 0..MaxPolicyHand }

\* spell boards as the policy's own placements build them, a stack as
\* << library id, size >>: a second stack of a name only after a full one
PolicySpellBoards ==
  { << << >>, << >>, << >>, << >> >>,
    << << "firestorm", 2 >>, << >>, << >>, << >> >>,
    << << "cantrip", 3 >>, << "healing_wave", 2 >>, << >>, << >> >>,
    << << "shockwave", 1 >>, << "meteor", 2 >>, << "healing_wave", 1 >>, << >> >>,
    << << "cantrip", 1 >>, << "hex", 1 >>, << "healing_wave", 1 >>, << "meteor", 1 >> >>,
    << << "meteor", 3 >>, << "healing_wave", 3 >>, << "meteor", 1 >>, << "healing_wave", 1 >> >> }

\* spirit boards, a slot as a library id or "" for None
PolicySpiritBoards ==
  { << "", "", "" >>, << "golem", "", "" >>, << "", "wyrm", "dragon" >> }

PolicyFoeBoards ==
  { << "", "", "" >>, << "golem", "", "" >>, << "", "wyrm", "golem" >> }

PolicyStack(side, k, entry) ==
  IF entry = << >> THEN << >>
  ELSE [ j \in 1..entry[2] |-> Card(entry[1], side * 100 + k * 10 + j) ]

PolicySpirits(side, board) ==
  [ i \in 1..NumSpiritSlots |->
      IF board[i] = "" THEN None ELSE Card(board[i], side * 100 + 50 + i) ]

PolicyHand(side, hand) == [ i \in 1..Len(hand) |-> Card(hand[i], side * 100 + 60 + i) ]

PolicyIds(p) ==
  { c.id : c \in CardsIn(p.hand) }
    \cup UNION { { c.id : c \in CardsIn(p.spell_slots[k]) } : k \in 1..NumSpellSlots }
    \cup { p.spirit_slots[i].id : i \in { j \in 1..NumSpiritSlots : ~IsNone(p.spirit_slots[j]) } }

InitPolicy ==
  /\ current_player_id = bot_id
  /\ turn_count = PolicyTurn
  /\ game_over = FALSE
  /\ winner = 0
  /\ lastCall = NoCall
  /\ ai = AiIdle
  /\ current_phase \in { "memorization", "invocation" }
  /\ \E hand \in IF current_phase = "memorization" THEN PolicyHands ELSE { << >>, << "cantrip" >> },
        stacks \in PolicySpellBoards, spirits \in PolicySpiritBoards, foes \in PolicyFoeBoards,
        aether \in IF current_phase = "invocation" THEN 0..MaxPolicyAether ELSE { UpkeepAether },
        hp \in IF current_phase = "invocation" THEN { LowHp - 1, LowHp, LowHp + 1 } ELSE { StartHp },
        foe_hp \in IF current_phase = "invocation" THEN { 2, StartHp } ELSE { StartHp },
        placed \in IF current_phase = "memorization" THEN BOOLEAN ELSE { TRUE } :
       players = [ s \in Sides |->
                     IF s = bot_id
                     THEN [ PlayerState EXCEPT
                              !.hand = PolicyHand(s, hand),
                              !.spell_slots = [ k \in 1..NumSpellSlots |-> PolicyStack(s, k, stacks[k]) ],
                              !.spirit_slots = PolicySpirits(s, spirits),
                              !.aether = aether,
                              !.wizard_hp = hp,
                              !.placed_card_this_turn = placed ]
                     ELSE [ PlayerState EXCEPT
                              !.spirit_slots = PolicySpirits(s, foes),
                              !.wizard_hp = foe_hp ] ]
  /\ placements = [ s \in Sides |->
                      IF players[s].placed_card_this_turn THEN 1 ELSE 0 ]
  /\ dealt = [ s \in Sides |-> PolicyIds(players[s]) ]

\* (mutation) a policy that keeps a note in the side's state
get_move_call_Marks ==
  /\ lastCall = NoCall
  /\ current_player_id = bot_id
  /\ ~game_over
  /\ lastCall' = [ op |-> "get_move", side |-> bot_id, ok |-> TRUE, message |-> "",
                   args |-> << get_move >>, over |-> game_over, before |-> Snapshot ]
  /\ players' = [ players EXCEPT ![bot_id].wizard_ability_used = TRUE ]
  /\ UNCHANGED << current_player_id, current_phase, turn_count, game_over, winner,
                  placements, dealt, ai >>

\* "move = self.get_move(game)": the call on its own; the caller holds the
\* move it returned
get_move_call ==
  /\ lastCall = NoCall
  /\ current_player_id = bot_id
  /\ ~game_over
  /\ lastCall' = [ op |-> "get_move", side |-> bot_id, ok |-> TRUE, message |-> "",
                   args |-> << get_move >>, over |-> game_over, before |-> Snapshot ]
  /\ UNCHANGED << game, placements, dealt, ai >>

\* the driver's call for the move it holds (lines 196-216), the call's
\* result being what the engine returns for it; an advance_phase move makes
\* no resolver call
policy_apply ==
  /\ lastCall.op = "get_move"
  /\ LET move == lastCall.args[1]
         r == IF move.type = "summon_spirit"
              THEN summon_spirit_result(bot_id, move.name, move.slot_index)
              ELSE IF move.type = "prepare_spell"
              THEN prepare_spell_result(bot_id, move.name, move.slot_index)
              ELSE IF move.type = "replace_spell"
              THEN replace_spell_result(bot_id, move.name, move.slot_index)
              ELSE IF move.type = "activate_spell"
              THEN activate_spell_result(bot_id, move.slot_index, move.copies_used)
              ELSE attack_with_spirit_result(bot_id, move.slot_index, move.target_type,
                                             move.target_index)
         op == IF move.type = "attack" THEN "attack_with_spirit" ELSE move.type
     IN  /\ move.type # "advance_phase"
         /\ lastCall' = Call(op, bot_id, << move >>, r)
         /\ AiApply(r)
         /\ IF move.type \in { "summon_spirit", "prepare_spell", "replace_spell" }
            THEN Placed(bot_id, r)
            ELSE UNCHANGED placements
  /\ UNCHANGED << dealt, ai >>

NextPolicy ==
  \/ get_move_call
  \/ policy_apply
  \/ call_returns

SpecPolicy == InitPolicy /\ [][NextPolicy]_vars


\* ========================================================================
\* Properties
\* ========================================================================
ResolverOps ==
  { "summon_spirit", "prepare_spell", "replace_spell", "use_wizard_ability",
    "activate_spell", "attack_with_spirit" }

PlacementOps == { "summon_spirit", "prepare_spell", "replace_spell", "use_wizard_ability" }

\* every card a player state holds, container by container
Flatten(stacks) ==
  LET F[i \in 0..Len(stacks)] == IF i = 0 THEN << >> ELSE F[i - 1] \o stacks[i]
  IN  F[Len(stacks)]

Held(p) ==
  p.hand \o p.deck \o p.discard
    \o SelectSeq(p.spirit_slots, LAMBDA c : ~IsNone(c))
    \o Flatten(p.spell_slots)

\* C1: after any sequence of resolver calls and next_phase calls, with any
\* arguments, every player's aether is between 0 and 16.
C1_AetherInRange ==
  \A s \in Sides : 0 <= players[s].aether /\ players[s].aether <= max_aether

\* C2: after any sequence of resolver calls and next_phase calls, every
\* player's wizard_hp is between 0 and 20.
C2_WizardHpInRange ==
  \A s \in Sides : 0 <= players[s].wizard_hp /\ players[s].wizard_hp <= MaxHp

\* C3: for each side S, S's wizard_hp is 0 if and only if the game is over
\* and the winner is the other side.
C3_ZeroHpIffLost ==
  \A s \in Sides :
    (players[s].wizard_hp = 0) <=> (game_over /\ winner = get_opponent_id(s))

C5_SpiritSlotsAlive ==
  \A s \in Sides : \A i \in 1..NumSpiritSlots :
    LET c == players[s].spirit_slots[i]
    IN  IsNone(c) \/ (c.type = "spirit" /\ c.current_hp > 0)

\* C6: every card instance created for a side's deck is in exactly one of
\* that side's containers: none is duplicated, lost or moved to the other
\* side.
C6_CardsConserved ==
  \A s \in Sides :
    LET held == Held(players[s])
    IN  /\ Len(held) = Cardinality(dealt[s])
        /\ { held[i].id : i \in 1..Len(held) } = dealt[s]

\* C6 witness: a spirit that was summoned, destroyed, discarded and
\* reshuffled into the deck has been drawn again.
C6_Witness ==
  \E s \in Sides : \E i \in 1..Len(players[s].hand) :
    /\ players[s].hand[i].type = "spirit"
    /\ players[s].hand[i].current_hp <= 0

\* C7: for each side, at most one summon / prepare / replace / ability call
\* succeeds between two consecutive upkeeps (Attunement phases) of that side.
C7_OnePlacementPerTurn == \A s \in Sides : placements[s] <= 1

\* C7 witness: a side that has already placed this turn is refused a second
\* placement call in Memorization.
C7_Witness ==
  /\ lastCall.op \in PlacementOps /\ ~lastCall.ok
  /\ current_phase = "memorization"
  /\ placements[lastCall.side] = 1
  /\ players[lastCall.side].hand # << >>

\* C8 (as claimed): whenever the phase is Attunement or Respite, the current
\* side's placed_card_this_turn and wizard_ability_used are both false.
C8_FlagsClearInAttunementAndRespite ==
  current_phase \in { "attunement", "respite" } =>
    /\ ~players[current_player_id].placed_card_this_turn
    /\ ~players[current_player_id].wizard_ability_used

\* C8 (amended): whenever the phase is Attunement, the current side's
\* placed_card_this_turn and wizard_ability_used are both false.
C8_FlagsClearInAttunement ==
  current_phase = "attunement" =>
    /\ ~players[current_player_id].placed_card_this_turn
    /\ ~players[current_player_id].wizard_ability_used

\* C8 witness: next_phase has just started the Attunement of a side that
\* placed a card before, so that its upkeep had a flag to clear.
C8_Witness ==
  /\ current_phase = "attunement"
  /\ lastCall.op = "next_phase"
  /\ turn_count > 1
  /\ LET p == players[current_player_id]
     IN  \/ \E i \in 1..NumSpiritSlots : ~IsNone(p.spirit_slots[i])
         \/ \E i \in 1..NumSpellSlots : p.spell_slots[i] # << >>

\* C9: a resolver operation called for the side that is not the current
\* side returns failure and leaves the match state unchanged.
C9_OutOfTurnCallsRejected ==
  [][ (lastCall'.op \in ResolverOps /\ lastCall'.side # current_player_id)
        => (~lastCall'.ok /\ UNCHANGED game) ]_vars

\* C10: once game_over is true, every resolver operation returns failure
\* and the match state never changes again.
C10_NothingAfterGameOver ==
  [][ game_over => ((lastCall'.op \in ResolverOps => ~lastCall'.ok) /\ UNCHANGED game) ]_vars

\* ------------------------------------------------------------------------
\* Calls seen from their result: lastCall.before is the match state the
\* call found, the variables are the state it left
\* ------------------------------------------------------------------------
InvocationOps == { "activate_spell", "attack_with_spirit" }

\* the call returned (False, message)
ReturnedFailure == ~lastCall.ok /\ lastCall.message # TypeError

StateUnchanged == Snapshot = lastCall.before

OtherSide(side) == CHOOSE s \in Sides : s # side

\* C11: summon_spirit, prepare_spell, replace_spell and use_wizard_ability
\* return failure and leave the state unchanged whenever current_phase is
\* not Memorization; activate_spell and attack_with_spirit do so whenever
\* current_phase is not Invocation.
C11_WrongPhaseRejected ==
  /\ (lastCall.op \in PlacementOps /\ lastCall.before.current_phase # "memorization")
       => (ReturnedFailure /\ StateUnchanged)
  /\ (lastCall.op \in InvocationOps /\ lastCall.before.current_phase # "invocation")
       => (ReturnedFailure /\ StateUnchanged)

\* C11 witness: a summon that only the phase stood against (the side holds
\* a spirit, has a free slot and has not placed a card this turn) was
\* refused in Invocation.
C11_Witness ==
  /\ lastCall.op = "summon_spirit" /\ ~lastCall.ok
  /\ current_phase = "invocation"
  /\ LET p == players[lastCall.side]
     IN  /\ ~p.placed_card_this_turn
         /\ \E i \in 1..Len(p.hand) : p.hand[i].type = "spirit"
         /\ \E i \in 1..NumSpiritSlots : IsNone(p.spirit_slots[i])

\* the messages of the rule violations
RuleViolations ==
  { "No card in hand", "Spirit slot is occupied", "Spell slot is full (max 3)",
    "Can only stack identical spells", "Invalid slot index", "Invalid spell slot index",
    "Invalid attacker slot", "No spirit in that slot", "No spells in that slot",
    "Not enough Aether", "Invalid target slot", "No spirit in target slot",
    "Invalid target type", "Cannot attack wizard (Guard Rule)",
    "Could not activate (no valid targets or effect?)" }

CyclePos(side, phase) == 4 * (IF side = player1_id THEN 0 ELSE 1) + PhaseIndex(phase) - 1

\* C13: while the game is not over, next_phase moves Attunement ->
\* Memorization -> Invocation -> Respite without changing the current side
\* and from Respite to the opponent's Attunement: each call advances one
\* position in a round of eight, so 4 calls from a side's Attunement reach
\* the other side's Attunement and exactly 8 return to its own.
C13_PhaseCycle ==
  (lastCall.op = "next_phase" /\ ~lastCall.before.game_over) =>
    LET was == lastCall.before
    IN  /\ IF was.current_phase = "respite"
           THEN /\ current_phase = "attunement"
                /\ current_player_id = OtherSide(was.current_player_id)
           ELSE /\ current_phase = Phase[PhaseIndex(was.current_phase) + 1]
                /\ current_player_id = was.current_player_id
        /\ CyclePos(current_player_id, current_phase)
             = (CyclePos(was.current_player_id, was.current_phase) + 1) % 8

\* C13 witness: the eighth next_phase call of the match has brought the turn
\* back to player 1's Attunement.
C13_Witness ==
  /\ lastCall.op = "next_phase"
  /\ lastCall.before.current_phase = "respite"
  /\ lastCall.before.current_player_id = player2_id
  /\ current_player_id = player1_id /\ current_phase = "attunement"
  /\ ~game_over

\* what a next_phase call does to turn_count
TurnCountStep ==
  lastCall.op = "next_phase" =>
    LET was == lastCall.before
        passes == /\ ~was.game_over
                  /\ was.current_phase = "respite"
                  /\ was.current_player_id = player2_id
    IN  turn_count = was.turn_count + (IF passes THEN 1 ELSE 0)

\* C14: turn_count starts at 1, increases by exactly 1 on each next_phase
\* that passes the turn from player 2's Respite to player 1's Attunement,
\* and is unchanged by every other next_phase call.
C14_TurnCount == turn_count = 1 /\ []TurnCountStep

\* C14 witness: next_phase has just passed the turn from player 2 to player 1
\* and turn_count went from 1 to 2.
C14_Witness ==
  /\ lastCall.op = "next_phase"
  /\ lastCall.before.turn_count = 1 /\ turn_count = 2
  /\ current_player_id = player1_id

\* C15: a next_phase call made in Respite runs upkeep for the new current
\* side only. Its hand grows by exactly one card taken from its deck if the
\* deck is not empty; otherwise, if its discard pile is not empty, the whole
\* discard pile becomes the deck, the discard pile becomes empty and one card
\* is drawn; otherwise no card is drawn and the hand is unchanged. In all
\* three cases its aether becomes min(aether + 2, 16) and both per-turn
\* flags become false; the other side's state is unchanged.
C15_Upkeep ==
  ( /\ lastCall.op = "next_phase"
    /\ ~lastCall.before.game_over
    /\ lastCall.before.current_phase = "respite" ) =>
    LET was == lastCall.before
        p == was.players[current_player_id]
        q == players[current_player_id]
        drawn == q.hand[Len(q.hand)]
        one_more == /\ Len(q.hand) = Len(p.hand) + 1
                    /\ SubSeq(q.hand, 1, Len(p.hand)) = p.hand
    IN  /\ players[was.current_player_id] = was.players[was.current_player_id]
        /\ IF p.deck # << >>
           THEN /\ one_more
                /\ drawn \in CardsIn(p.deck)
                /\ Len(q.deck) = Len(p.deck) - 1
                /\ CardsIn(q.deck) = CardsIn(p.deck) \ {drawn}
                /\ q.discard = p.discard
           ELSE IF p.discard # << >>
           THEN /\ one_more
                /\ drawn \in CardsIn(p.discard)
                /\ Len(q.deck) = Len(p.discard) - 1
                /\ CardsIn(q.deck) = CardsIn(p.discard) \ {drawn}
                /\ q.discard = << >>
           ELSE /\ q.hand = p.hand
                /\ q.deck = << >>
                /\ q.discard = << >>
        /\ q.aether = (IF p.aether + 2 < 16 THEN p.aether + 2 ELSE 16)
        /\ ~q.placed_card_this_turn /\ ~q.wizard_ability_used
        /\ q.wizard_hp = p.wizard_hp
        /\ q.spirit_slots = p.spirit_slots
        /\ q.spell_slots = p.spell_slots

\* C15 witness: an upkeep has drawn from a deck that was not empty, for a
\* side that had placed a card since its last upkeep.
C15_Witness ==
  /\ lastCall.op = "next_phase"
  /\ lastCall.before.current_phase = "respite"
  /\ LET p == lastCall.before.players[current_player_id]
     IN  p.deck # << >> /\ p.placed_card_this_turn

\* C16: next_phase called while game_over is true changes nothing: current
\* side, phase, turn_count, hands, decks and aether stay as they were.
C16_NextPhaseAfterGameOver ==
  (lastCall.op = "next_phase" /\ lastCall.before.game_over) => StateUnchanged

\* C16 witness: next_phase was called after an attack had ended the game,
\* and the match is still in the Invocation phase of that attack.
C16_Witness ==
  /\ lastCall.op = "next_phase"
  /\ lastCall.before.game_over
  /\ current_phase = "invocation"
  /\ \E s \in Sides : players[s].wizard_hp = 0 /\ winner = OtherSide(s)

\* C17: in Invocation, a wizard-targeted attack by a spirit without
\* direct_attack fails, with the aether unchanged, whenever the opponent has
\* at least one occupied spirit slot, and succeeds whenever the opponent has
\* none and the owner's aether covers the spirit's activation cost; a spirit
\* with direct_attack succeeds in both cases.
C17_GuardRule ==
  current_phase = "invocation" =>
    \A player_id \in Sides : \A spirit_slot_index \in 0..(NumSpiritSlots - 1) :
      LET spirit == players[player_id].spirit_slots[spirit_slot_index + 1]
          guards == { i \in 1..NumSpiritSlots :
                        ~IsNone(players[OtherSide(player_id)].spirit_slots[i]) }
          affordable == players[player_id].aether >= spirit.activation_cost
          r == attack_with_spirit_result(player_id, spirit_slot_index, "wizard", NoIndex)
      IN  ~IsNone(spirit) =>
            /\ (~spirit.direct_attack /\ guards # {})
                 => (~r.ok /\ r.message # TypeError /\ r.players = players)
            /\ (~spirit.direct_attack /\ guards = {} /\ affordable) => r.ok
            /\ (spirit.direct_attack /\ affordable) => r.ok

\* C17 witness: a side whose only spirit has no direct_attack and whose
\* aether covers its cost was refused an attack on the wizard under the
\* Guard Rule.
C17_Witness ==
  /\ lastCall.op = "attack_with_spirit"
  /\ lastCall.message = "Cannot attack wizard (Guard Rule)"
  /\ \E i \in 1..NumSpiritSlots : ~IsNone(players[OtherSide(lastCall.side)].spirit_slots[i])
  /\ \A i \in 1..NumSpiritSlots :
       LET c == players[lastCall.side].spirit_slots[i]
       IN  ~IsNone(c) => (~c.direct_attack /\ players[lastCall.side].aether >= c.activation_cost)

\* a successful attack_with_spirit call on the given target type
Attacked(target_type) ==
  /\ lastCall.op = "attack_with_spirit" /\ lastCall.ok
  /\ lastCall.args[2] = target_type

\* the spirit a successful attack was made with
Attacker == lastCall.before.players[lastCall.side].spirit_slots[lastCall.args[1] + 1]

\* C18: a successful wizard-targeted attack lowers the opponent's wizard_hp
\* by max(0, attacker power) and the owner's aether by exactly the spirit's
\* activation cost; if the result would be <= 0, wizard_hp becomes 0,
\* game_over true and winner the attacking side. No other operation sets
\* game_over.
C18_WizardAttack ==
  /\ Attacked("wizard") =>
       LET was == lastCall.before
           opponent_id == OtherSide(lastCall.side)
           damage == IF Attacker.power > 0 THEN Attacker.power ELSE 0
           hp == was.players[opponent_id].wizard_hp - damage
       IN  /\ players[lastCall.side].aether
                = was.players[lastCall.side].aether - Attacker.activation_cost
           /\ IF hp <= 0
              THEN /\ players[opponent_id].wizard_hp = 0
                   /\ game_over
                   /\ winner = lastCall.side
              ELSE /\ players[opponent_id].wizard_hp = hp
                   /\ game_over = was.game_over
                   /\ winner = was.winner
  /\ (lastCall # NoCall /\ game_over /\ ~lastCall.before.game_over) => Attacked("wizard")

\* C18 witness: an attack on the wizard has just ended the game.
C18_Witness ==
  /\ Attacked("wizard")
  /\ game_over /\ ~lastCall.before.game_over
  /\ winner = lastCall.side

\* C19: a successful spirit-targeted attack lowers the target's current_hp
\* by max(0, attacker power - target defense), the defense being the one the
\* target had before the call; then, if the attacker has reduce_defense n and
\* the target lacks prevent_defense_reduction, the target's defense becomes
\* max(0, defense - n), whether or not the target dies; then, if its
\* current_hp is <= 0, the target goes to its owner's discard pile and its
\* slot is cleared.
C19_SpiritAttack ==
  Attacked("spirit") =>
    LET was == lastCall.before
        opponent_id == OtherSide(lastCall.side)
        slot == lastCall.args[3][1] + 1
        target == was.players[opponent_id].spirit_slots[slot]
        raw == Attacker.power - target.defense
        hp == target.current_hp - (IF raw > 0 THEN raw ELSE 0)
        lowered == target.defense - Attacker.reduce_defense
        defense == IF Attacker.reduce_defense # 0 /\ ~target.prevent_defense_reduction
                   THEN (IF lowered > 0 THEN lowered ELSE 0)
                   ELSE target.defense
        after == [ target EXCEPT !.current_hp = hp, !.defense = defense ]
    IN  IF hp <= 0
        THEN /\ IsNone(players[opponent_id].spirit_slots[slot])
             /\ players[opponent_id].discard = Append(was.players[opponent_id].discard, after)
        ELSE /\ players[opponent_id].spirit_slots[slot] = after
             /\ players[opponent_id].discard = was.players[opponent_id].discard

\* C19 witness: a spirit that survived an attack with its defense reduced
\* to 0 has been attacked again and destroyed, the damage being the
\* attacker's full power.
C19_Witness ==
  /\ Attacked("spirit")
  /\ Attacker.reduce_defense # 0
  /\ LET was == lastCall.before
         opponent_id == OtherSide(lastCall.side)
         slot == lastCall.args[3][1] + 1
         target == was.players[opponent_id].spirit_slots[slot]
     IN  /\ target.defense = 0
         /\ target.current_hp < target.max_hp
         /\ IsNone(players[opponent_id].spirit_slots[slot])
         /\ Last(players[opponent_id].discard).current_hp
              = target.current_hp - Attacker.power

\* C20: a successful activate_spell on a stack uses c = min(requested
\* copies, stack size): the caster had aether >= unit cost * c, the call
\* lowers the caster's aether by exactly unit cost * c and moves exactly c
\* cards from the stack to the caster's discard pile, leaving
\* stack size - c cards in the slot.
C20_ActivateUsesClampedCopies ==
  (lastCall.op = "activate_spell" /\ lastCall.ok) =>
    LET was == lastCall.before.players[lastCall.side]
        now == players[lastCall.side]
        slot == lastCall.args[1] + 1
        stack == was.spell_slots[slot]
        c == IF lastCall.args[2] < Len(stack) THEN lastCall.args[2] ELSE Len(stack)
        cost == stack[1].activation_cost * c
    IN  /\ was.aether >= cost
        /\ now.aether = was.aether - cost
        /\ Len(now.spell_slots[slot]) = Len(stack) - c
        /\ Len(now.discard) = Len(was.discard) + c
        /\ CardsIn(now.discard) \ CardsIn(was.discard)
             = CardsIn(stack) \ CardsIn(now.spell_slots[slot])

\* ------------------------------------------------------------------------
\* the stack a returned activate_spell call was made on, the copy count it
\* used ("copies_used" after the clamp) and the card that was activated
CastSlot == lastCall.args[1] + 1

CastStack == lastCall.before.players[lastCall.side].spell_slots[CastSlot]

CastCopies ==
  IF lastCall.args[2] > Len(CastStack) THEN Len(CastStack) ELSE lastCall.args[2]

IsAoe(spell) == spell.aoe_damage /\ spell.target = "enemy_spirits"

\* an activation that succeeded
Cast == lastCall.op = "activate_spell" /\ lastCall.ok

CastAoe == Cast /\ IsAoe(CastStack[1])

\* C21: an area spell activated with c copies deals D = scaling * c to every
\* occupied opposing spirit slot in that one call: each spirit there loses
\* max(0, D - its own defense) health whatever happens to the others, a
\* spirit left with health <= 0 is in its owner's discard pile and its slot
\* is empty, a surviving spirit stays in its slot, and empty slots stay
\* empty; the caster's stack loses c cards to the caster's discard pile.
\* In the Invocation phase an affordable activation of an area spell
\* succeeds whether or not the opponent has spirits.
C21_AoeDamage ==
  /\ CastAoe =>
       LET side == lastCall.side
           foe == OtherSide(side)
           was == lastCall.before.players
           D == CastStack[1].scaling * CastCopies
       IN  /\ \A i \in 1..NumSpiritSlots :
                LET spirit == was[foe].spirit_slots[i]
                    now == players[foe].spirit_slots[i]
                    hp == spirit.current_hp - Max(0, D - spirit.defense)
                    hurt == [ spirit EXCEPT !.current_hp = hp ]
                IN  IF IsNone(spirit) THEN IsNone(now)
                    ELSE IF hp <= 0
                    THEN /\ IsNone(now)
                         /\ hurt \in CardsIn(players[foe].discard)
                         /\ spirit.id \notin { d.id : d \in CardsIn(was[foe].discard) }
                    ELSE now = hurt
           /\ Len(players[foe].discard) = Len(was[foe].discard)
                + Cardinality({ i \in 1..NumSpiritSlots :
                                  /\ ~IsNone(was[foe].spirit_slots[i])
                                  /\ IsNone(players[foe].spirit_slots[i]) })
           /\ Len(players[side].spell_slots[CastSlot]) = Len(CastStack) - CastCopies
           /\ Len(players[side].discard) = Len(was[side].discard) + CastCopies
           /\ players[side].discard = was[side].discard
                \o [ k \in 1..CastCopies |-> CastStack[Len(CastStack) + 1 - k] ]
  /\ current_phase = "invocation" =>
       \A player_id \in Sides, slot_index \in 0..(NumSpellSlots - 1), copies_used \in CopiesArgs :
         LET stack == players[player_id].spell_slots[slot_index + 1]
             c == IF copies_used > Len(stack) THEN Len(stack) ELSE copies_used
         IN  (/\ stack # << >>
              /\ IsAoe(stack[1])
              /\ players[player_id].aether >= stack[1].activation_cost * c)
             => activate_spell_result(player_id, slot_index, copies_used).ok

\* an area spell has hit two spirits of different defense next to an empty
\* slot: one of them was destroyed and one survived with less health
C21_Witness ==
  /\ CastAoe
  /\ LET foe == OtherSide(lastCall.side)
         was == lastCall.before.players[foe].spirit_slots
         now == players[foe].spirit_slots
     IN  /\ \E i \in 1..NumSpiritSlots : IsNone(was[i])
         /\ \E i, j \in 1..NumSpiritSlots :
              /\ ~IsNone(was[i]) /\ ~IsNone(was[j])
              /\ was[i].defense # was[j].defense
              /\ IsNone(now[i])
              /\ ~IsNone(now[j]) /\ now[j].current_hp < was[j].current_hp

\* the "elif heal_wizard" branch: a card with heal_wizard that is not an
\* area spell
IsHeal(spell) == ~IsAoe(spell) /\ spell.heal_wizard # 0

CastHeal == Cast /\ IsHeal(CastStack[1])

SpiritHealth(p) ==
  [ i \in 1..NumSpiritSlots |->
      IF IsNone(p.spirit_slots[i]) THEN << >> ELSE << p.spirit_slots[i].id, p.spirit_slots[i].current_hp >> ]

\* C22: activating a heal_wizard spell (not an area spell) of value n with
\* c copies succeeds whenever the caster can afford it and sets the caster's
\* wizard_hp to min(20, wizard_hp + n * c); no spirit on either board
\* changes its health (heal_spirit on the same card does nothing) and the
\* opponent's wizard_hp stays as it was.
C22_HealWizard ==
  /\ CastHeal =>
       LET side == lastCall.side
           foe == OtherSide(side)
           was == lastCall.before.players
           healed == was[side].wizard_hp + CastStack[1].heal_wizard * CastCopies
       IN  /\ players[side].wizard_hp = IF healed < 20 THEN healed ELSE 20
           /\ \A s \in Sides : SpiritHealth(players[s]) = SpiritHealth(was[s])
           /\ players[foe].wizard_hp = was[foe].wizard_hp
  /\ current_phase = "invocation" =>
       \A player_id \in Sides, slot_index \in 0..(NumSpellSlots - 1), copies_used \in CopiesArgs :
         LET stack == players[player_id].spell_slots[slot_index + 1]
             c == IF copies_used > Len(stack) THEN Len(stack) ELSE copies_used
         IN  (/\ stack # << >>
              /\ IsHeal(stack[1])
              /\ players[player_id].aether >= stack[1].activation_cost * c)
             => activate_spell_result(player_id, slot_index, copies_used).ok

\* a wounded wizard has activated one copy of a spell that carries both
\* heal_wizard and heal_spirit while a spirit was on the board
C22_Witness ==
  /\ CastHeal
  /\ CastCopies = 1
  /\ CastStack[1].heal_spirit > 0
  /\ lastCall.before.players[lastCall.side].wizard_hp < 20
  /\ players[lastCall.side].wizard_hp > lastCall.before.players[lastCall.side].wizard_hp
  /\ \E s \in Sides, i \in 1..NumSpiritSlots : ~IsNone(players[s].spirit_slots[i])

\* a card none of whose keywords activate_spell resolves
NoEffect(spell) == ~IsAoe(spell) /\ ~IsHeal(spell)

\* C23: activate_spell on a stack whose card is neither an area spell on
\* enemy spirits nor a heal_wizard spell returns failure, whatever the copy
\* count, and leaves everything as it was: the caster's aether, the discard
\* piles, the stack and both boards.
C23_NoEffectRefunded ==
  /\ \A player_id \in Sides, slot_index \in 0..(NumSpellSlots - 1), copies_used \in CopiesArgs :
       LET stack == players[player_id].spell_slots[slot_index + 1]
           r == activate_spell_result(player_id, slot_index, copies_used)
       IN  (stack # << >> /\ NoEffect(stack[1])) =>
             /\ ~r.ok
             /\ r.players = players
             /\ r.game_over = game_over /\ r.winner = winner
  /\ (lastCall.op = "activate_spell"
        /\ lastCall.message = "Could not activate (no valid targets or effect?)") =>
       ~lastCall.ok /\ StateUnchanged

\* an activation the caster could pay for was turned down for lack of an
\* effect while a spirit was on the board
C23_Witness ==
  /\ lastCall.op = "activate_spell"
  /\ lastCall.message = "Could not activate (no valid targets or effect?)"
  /\ players[lastCall.side].aether > 0
  /\ \E i \in 1..NumSpellSlots :
       /\ players[lastCall.side].spell_slots[i] # << >>
       /\ NoEffect(players[lastCall.side].spell_slots[i][1])
  /\ \E s \in Sides, i \in 1..NumSpiritSlots : ~IsNone(players[s].spirit_slots[i])

\* ------------------------------------------------------------------------
\* the positions in a hand of the cards of one type and name
InHand(hand, type, name) ==
  { i \in 1..Len(hand) : hand[i].type = type /\ hand[i].name = name }

\* C24: summon_spirit succeeds exactly when the phase is Memorization, the
\* side's placed_card_this_turn is false, a spirit of the given name is in
\* its hand and the slot index is 0, 1 or 2 with that slot empty; a
\* successful call takes the card out of the hand, puts it into the slot
\* and sets placed_card_this_turn, and changes nothing else: not the
\* side's aether or other slots, and nothing of the opponent.
C24_Summon ==
  /\ \A player_id \in Sides, spirit_name \in CardNames, slot_index \in -1..NumSpiritSlots :
       LET player == players[player_id]
       IN  summon_spirit_result(player_id, spirit_name, slot_index).ok
           <=> /\ current_phase = "memorization"
               /\ ~player.placed_card_this_turn
               /\ InHand(player.hand, "spirit", spirit_name) # {}
               /\ slot_index \in 0..2
               /\ IsNone(player.spirit_slots[slot_index + 1])
  /\ (lastCall.op = "summon_spirit" /\ lastCall.ok) =>
       LET side == lastCall.side
           was == lastCall.before.players
           slot == lastCall.args[2] + 1
       IN  /\ \E i \in InHand(was[side].hand, "spirit", lastCall.args[1]) :
                players[side] = [ was[side] EXCEPT
                                    !.hand = RemoveAt(@, i),
                                    !.spirit_slots[slot] = was[side].hand[i],
                                    !.placed_card_this_turn = TRUE ]
           /\ IsNone(was[side].spirit_slots[slot])
           /\ players[OtherSide(side)] = was[OtherSide(side)]

\* a spirit was summoned next to one that was already on the board, from a
\* hand that held more spirits
C24_Witness ==
  /\ lastCall.op = "summon_spirit" /\ lastCall.ok
  /\ \E i \in 1..NumSpiritSlots :
       /\ i # lastCall.args[2] + 1
       /\ ~IsNone(lastCall.before.players[lastCall.side].spirit_slots[i])
  /\ Len(players[lastCall.side].hand) > 0

\* C25: prepare_spell succeeds exactly when the phase is Memorization, the
\* side's placed_card_this_turn is false, a spell of the given name is in
\* its hand, the slot index is 0..3 and the slot is empty or holds fewer
\* than 3 cards, all of that name; a successful call appends the card to
\* the slot's stack, which grows by one, and sets placed_card_this_turn.
C25_Prepare ==
  /\ \A player_id \in Sides, spell_name \in CardNames, slot_index \in -1..NumSpellSlots :
       LET player == players[player_id]
       IN  prepare_spell_result(player_id, spell_name, slot_index).ok
           <=> /\ current_phase = "memorization"
               /\ ~player.placed_card_this_turn
               /\ InHand(player.hand, "spell", spell_name) # {}
               /\ slot_index \in 0..3
               /\ LET stack == player.spell_slots[slot_index + 1]
                  IN  \/ stack = << >>
                      \/ /\ Len(stack) < 3
                         /\ \A k \in 1..Len(stack) : stack[k].name = spell_name
  /\ (lastCall.op = "prepare_spell" /\ lastCall.ok) =>
       LET side == lastCall.side
           was == lastCall.before.players
           slot == lastCall.args[2] + 1
       IN  /\ \E i \in InHand(was[side].hand, "spell", lastCall.args[1]) :
                players[side] = [ was[side] EXCEPT
                                    !.hand = RemoveAt(@, i),
                                    !.spell_slots[slot] = @ \o << was[side].hand[i] >>,
                                    !.placed_card_this_turn = TRUE ]
           /\ Len(players[side].spell_slots[slot]) = Len(was[side].spell_slots[slot]) + 1
           /\ players[OtherSide(side)] = was[OtherSide(side)]

\* a third copy has been prepared onto a stack of two, and the side still
\* holds a copy that the full stack will turn away
C25_Witness ==
  /\ lastCall.op = "prepare_spell" /\ lastCall.ok
  /\ Len(players[lastCall.side].spell_slots[lastCall.args[2] + 1]) = 3
  /\ InHand(players[lastCall.side].hand, "spell", lastCall.args[1]) # {}

\* C26: a successful replace_spell moves every card of the slot's stack
\* (0 to 3 cards, whatever their name) to the side's discard pile, leaves
\* exactly the one new spell from the hand in the slot, sets
\* placed_card_this_turn and leaves the other three spell slots unchanged.
C26_Replace ==
  (lastCall.op = "replace_spell" /\ lastCall.ok) =>
    LET side == lastCall.side
        was == lastCall.before.players[side]
        now == players[side]
        slot == lastCall.args[2] + 1
    IN  /\ now.discard = was.discard \o was.spell_slots[slot]
        /\ Len(now.spell_slots[slot]) = 1
        /\ now.spell_slots[slot][1].name = lastCall.args[1]
        /\ now.spell_slots[slot][1].type = "spell"
        /\ now.spell_slots[slot][1] \in CardsIn(was.hand)
        /\ now.spell_slots[slot][1] \notin CardsIn(now.hand)
        /\ Len(now.hand) = Len(was.hand) - 1
        /\ now.placed_card_this_turn
        /\ \A k \in 1..NumSpellSlots : k # slot => now.spell_slots[k] = was.spell_slots[k]

\* a full stack of three has been replaced by one spell
C26_Witness ==
  /\ lastCall.op = "replace_spell" /\ lastCall.ok
  /\ Len(lastCall.before.players[lastCall.side].spell_slots[lastCall.args[2] + 1]) = 3
  /\ Len(players[lastCall.side].discard) >= 3

\* C27: use_wizard_ability succeeds exactly when the phase is Memorization
\* and the side's placed_card_this_turn and wizard_ability_used are both
\* false; a successful call sets aether to min(aether + 1, 16) and both
\* flags to true, and leaves hand, deck, discard pile and board unchanged.
C27_WizardAbility ==
  /\ \A player_id \in Sides :
       use_wizard_ability_result(player_id).ok
       <=> /\ current_phase = "memorization"
           /\ ~players[player_id].placed_card_this_turn
           /\ ~players[player_id].wizard_ability_used
  /\ (lastCall.op = "use_wizard_ability" /\ lastCall.ok) =>
       LET side == lastCall.side
           was == lastCall.before.players
       IN  /\ players[side] =
                [ was[side] EXCEPT
                    !.aether = IF was[side].aether + 1 < 16 THEN was[side].aether + 1 ELSE 16,
                    !.wizard_ability_used = TRUE,
                    !.placed_card_this_turn = TRUE ]
           /\ players[OtherSide(side)] = was[OtherSide(side)]

\* the ability was used by a side that holds cards and has a card on its
\* board, and it gained 1 aether
C27_Witness ==
  /\ lastCall.op = "use_wizard_ability" /\ lastCall.ok
  /\ players[lastCall.side].aether = lastCall.before.players[lastCall.side].aether + 1
  /\ Len(players[lastCall.side].hand) > 0
  /\ \E k \in 1..NumSpellSlots : players[lastCall.side].spell_slots[k] # << >>

\* ------------------------------------------------------------------------
\* a side as initialize_decks leaves it when its deck list has n cards
FreshSide(p, n) ==
  /\ Len(p.hand) = (IF n < 7 THEN n ELSE 7)
  /\ Len(p.deck) = n - (IF n < 7 THEN n ELSE 7)
  /\ p.wizard_hp = 20
  /\ p.aether = 0
  /\ \A i \in 1..NumSpiritSlots : IsNone(p.spirit_slots[i])
  /\ \A k \in 1..NumSpellSlots : p.spell_slots[k] = << >>
  /\ p.discard = << >>
  /\ ~p.wizard_ability_used
  /\ ~p.placed_card_this_turn

\* C28: a match starts with each side, whose deck list has n cards, holding
\* min(7, n) cards in hand and n - min(7, n) in its deck, with wizard_hp 20,
\* aether 0, an empty board, an empty discard pile and both flags false;
\* the current side is player 1, the phase is Attunement, turn_count is 1
\* and game_over is false. (n, the number of card instances created for
\* the side, stays what it is for the whole match.)
C28_InitialState ==
  /\ \A s \in Sides :
       /\ FreshSide(players[s], Cardinality(dealt[s]))
       /\ { c.id : c \in CardsIn(players[s].hand \o players[s].deck) } = dealt[s]
  /\ current_player_id = player1_id
  /\ current_phase = "attunement"
  /\ turn_count = 1
  /\ game_over = FALSE
  /\ [][dealt' = dealt]_vars

\* the match has just been set up from a deck list longer than the
\* starting hand and an empty one
C28_Witness ==
  /\ Advances = 0
  /\ lastCall = NoCall
  /\ \A s \in Sides : placements[s] = 0 /\ players[s].aether = 0
  /\ \E s \in Sides : Cardinality(dealt[s]) > 7 /\ Len(players[s].deck) > 0
  /\ \E s \in Sides : Cardinality(dealt[s]) = 0

\* ------------------------------------------------------------------------
\* execute_ai_turn has returned to its caller
AiReturned == lastCall.op = "execute_ai_turn"

\* C29: execute_ai_turn terminates from every reachable match state it is
\* called in, and one pass makes at most 10 activate_spell and
\* attack_with_spirit calls.
C29_AiTerminates ==
  /\ [](ai.calls <= 10)
  /\ [](AiReturned => lastCall.args[1] <= 10)
  /\ (ai.pc # "idle") ~> (ai.pc = "idle" /\ AiReturned)

\* a pass has returned after 10 calls that the cap cut short
C29_Witness ==
  /\ AiReturned
  /\ lastCall.args[1] = 10

\* C30: when execute_ai_turn was called on the AI's turn and has returned,
\* either game_over is true, or the current side is the opponent, in its
\* Attunement phase with its upkeep done (2 aether gained up to 16, both
\* flags cleared, the top card of its deck drawn, turn_count advanced); the
\* AI does not return while it still holds the turn.
C30_AiHandsOver ==
  (AiReturned /\ lastCall.before.current_player_id = bot_id) =>
    \/ game_over
    \/ LET foe == OtherSide(bot_id)
           was == lastCall.before.players[foe]
           now == players[foe]
       IN  /\ current_player_id = foe
           /\ current_phase = "attunement"
           /\ turn_count = lastCall.before.turn_count + 1
           /\ now.aether = (IF was.aether + 2 < 16 THEN was.aether + 2 ELSE 16)
           /\ ~now.placed_card_this_turn
           /\ ~now.wizard_ability_used
           /\ was.deck # << >> =>
                /\ now.hand = Append(was.hand, Last(was.deck))
                /\ now.deck = DropLast(was.deck)

\* a pass called at the start of the AI's turn has handed the turn to the
\* opponent with the match still running, after the AI placed a card
C30_Witness ==
  /\ AiReturned
  /\ lastCall.before.current_player_id = bot_id
  /\ lastCall.before.current_phase = "attunement"
  /\ ~game_over
  /\ current_player_id # bot_id
  /\ Len(players[bot_id].hand) < Len(lastCall.before.players[bot_id].hand)

\* ------------------------------------------------------------------------
\* C31: in execute_ai_turn a placement move (summon, prepare or replace) is
\* applied in the AI's Memorization phase; the driver then advances exactly
\* once, which makes the phase the AI's Invocation, and goes back to its
\* loop to consult the policy again, so that activate and attack calls can
\* follow in the same pass.
C31_PlacementThenInvocation ==
  /\ [](ai.pc = "placed" => (current_phase = "memorization" /\ current_player_id = bot_id))
  /\ [][ai.pc = "placed" =>
          /\ current_phase' = "invocation"
          /\ current_player_id' = bot_id
          /\ turn_count' = turn_count
          /\ ai'.pc = "loop"
          /\ ai'.action_count = ai.action_count]_vars

\* a pass in which the AI placed a card and then made an activate or
\* attack call has returned
C31_Witness ==
  /\ AiReturned
  /\ lastCall.before.current_player_id = bot_id
  /\ lastCall.before.current_phase \in { "attunement", "memorization" }
  /\ ~lastCall.before.players[bot_id].placed_card_this_turn
  /\ Len(players[bot_id].hand) < Len(lastCall.before.players[bot_id].hand)
  /\ lastCall.args[1] >= 1

\* ------------------------------------------------------------------------
\* one attack of the attacker takes the target's whole health
Lethal(attacker, target) ==
  (IF attacker.power - target.defense > 0 THEN attacker.power - target.defense ELSE 0)
    >= target.current_hp

\* the driver is about to apply the move the policy proposes
AiConsults ==
  /\ ai.pc = "loop"
  /\ LoopCondition
  /\ current_phase \notin { "attunement", "respite" }

\* C32: with a difficulty other than "easy", every attack on a spirit that
\* the policy proposes, for whichever side and attacking slot it is asked,
\* is lethal: max(0, attacker power - target defense) >= target current_hp;
\* and every attack on a spirit that the driver applies removes the target
\* from its slot into its owner's discard pile.
C32_LethalAttacksOnly ==
  /\ [](\A s \in Sides, i \in 1..NumSpiritSlots :
          LET move == AttackMove(players[s], players[OtherSide(s)], i)
              target == players[OtherSide(s)].spirit_slots[move.target_index[1] + 1]
          IN  (difficulty # "easy" /\ move.target_type = "spirit") =>
                /\ ~IsNone(target)
                /\ Lethal(players[s].spirit_slots[i], target))
  /\ [][(AiConsults /\ get_move.type = "attack" /\ get_move.target_type = "spirit") =>
          LET foe == OtherSide(bot_id)
              slot == get_move.target_index[1] + 1
              target == players[foe].spirit_slots[slot]
          IN  /\ IsNone(players'[foe].spirit_slots[slot])
              /\ \E k \in 1..Len(players'[foe].discard) : players'[foe].discard[k].id = target.id
              /\ Len(players'[foe].discard) = Len(players[foe].discard) + 1
              /\ ai'.calls = ai.calls + 1]_vars

\* the AI has destroyed an opposing spirit with an attack and passed the
\* turn on
C32_Witness ==
  /\ AiReturned
  /\ lastCall.args[1] >= 1
  /\ HasSpirits(lastCall.before.players[OtherSide(bot_id)])
  /\ ~HasSpirits(players[OtherSide(bot_id)])
  /\ HasSpirits(players[bot_id])


\* ------------------------------------------------------------------------
\* C33: in Memorization the policy returns the first applicable of: advance
\* if the side has placed a card this turn; summon a spirit of the hand
\* into the lowest-index empty spirit slot; prepare a spell of the hand
\* into a non-full stack of its name; prepare a spell of the hand into the
\* lowest-index empty spell slot; replace a stack with a spell of the hand
\* that is better than the stack's card; advance. With an empty hand it
\* returns advance.
\* ------------------------------------------------------------------------
HandHolds(p, type) == \E i \in 1..Len(p.hand) : p.hand[i].type = type

EmptySpiritSlots(p) == { i \in 1..NumSpiritSlots : IsNone(p.spirit_slots[i]) }

EmptySpellSlots(p) == { k \in 1..NumSpellSlots : p.spell_slots[k] = << >> }

\* the stacks a spell named name can be added to
OpenStacks(p, name) ==
  { k \in 1..NumSpellSlots :
      /\ p.spell_slots[k] # << >>
      /\ Len(p.spell_slots[k]) < MaxStack
      /\ p.spell_slots[k][1].name = name }

\* "better": strictly lower cost or strictly higher scaling
Better(spell, current_spell) ==
  \/ spell.activation_cost < current_spell.activation_cost
  \/ spell.scaling > current_spell.scaling

FilledSlots(p) == { k \in 1..NumSpellSlots : p.spell_slots[k] # << >> }

TopCost(p, k) == p.spell_slots[k][1].activation_cost

Healing(p, k) == p.spell_slots[k][1].heal_wizard # 0

\* the hand holds a spell of the move's name that is better than the card
\* of the stack in slot k
ProposesBetter(p, move, k) ==
  \E c \in CardsIn(p.hand) :
    c.type = "spell" /\ c.name = move.name /\ Better(c, p.spell_slots[k][1])

\* C34 as stated: when the policy proposes replace_spell, the slot it names
\* holds a stack of the lowest activation cost among the non-empty stacks,
\* a non-healing one if a non-healing stack has that cost, and the proposed
\* spell is cheaper or scales higher than that stack's card.
C34_ReplacesCheapest ==
  LET p == players[bot_id]
      move == get_move
      slot == move.slot_index + 1
  IN  move.type = "replace_spell" =>
        /\ slot \in FilledSlots(p)
        /\ \A k \in FilledSlots(p) : TopCost(p, slot) <= TopCost(p, k)
        /\ Healing(p, slot) =>
             \A k \in FilledSlots(p) : TopCost(p, k) = TopCost(p, slot) => Healing(p, k)
        /\ ProposesBetter(p, move, slot)

\* C34 as the code has it: the slot named is the first in slot order among
\* the non-empty stacks of the least score, the score of a stack being its
\* card's activation cost plus 1 if the card heals the wizard (so a healing
\* stack ties with a non-healing stack that costs one more, and the earlier
\* slot wins); the proposed spell is cheaper or scales higher than that
\* stack's card.
C34_ReplacesWeakest ==
  LET p == players[bot_id]
      move == get_move
      slot == move.slot_index + 1
      Score(k) == TopCost(p, k) + (IF Healing(p, k) THEN 1 ELSE 0)
  IN  move.type = "replace_spell" =>
        /\ slot \in FilledSlots(p)
        /\ \A k \in FilledSlots(p) : Score(slot) <= Score(k)
        /\ \A k \in FilledSlots(p) : Score(k) = Score(slot) => slot <= k
        /\ ProposesBetter(p, move, slot)

\* the policy has proposed to replace a stack although a healing stack in a
\* later slot costs less
C34_Witness ==
  /\ lastCall.op = "get_move"
  /\ lastCall.args[1].type = "replace_spell"
  /\ \E k \in FilledSlots(players[bot_id]) :
       /\ Healing(players[bot_id], k)
       /\ k > lastCall.args[1].slot_index + 1
       /\ TopCost(players[bot_id], k) < TopCost(players[bot_id], lastCall.args[1].slot_index + 1)


\* ------------------------------------------------------------------------
\* C35: in Invocation the policy returns the first applicable of: (1) with
\* a spirit on the opponent's board and an aoe_damage stack whose unit cost
\* is at most the side's aether, activate that stack with min(stack size,
\* aether div unit cost) copies; (2) with wizard_hp <= 10 and such a
\* heal_wizard stack, activate it with as many copies; (3) an attack by the
\* first spirit in slot order that can pay its cost and qualifies: at the
\* wizard if the opponent has no spirit or the spirit has direct_attack,
\* and its power is at least the opponent's wizard_hp or at least 4, else
\* at the best-scoring opposing spirit if the attack destroys it; (4)
\* advance.
\* ------------------------------------------------------------------------
Affordable(p, keyword) ==
  { k \in FilledSlots(p) :
      HasKeyword(p.spell_slots[k][1], keyword) /\ TopCost(p, k) <= p.aether }

AffordableCopies(p, k) ==
  LET by_aether == p.aether \div TopCost(p, k)
  IN  IF Len(p.spell_slots[k]) < by_aether THEN Len(p.spell_slots[k]) ELSE by_aether

WizardOk(p, o, i) ==
  /\ ~HasSpirits(o) \/ p.spirit_slots[i].direct_attack
  /\ \/ p.spirit_slots[i].power >= o.wizard_hp
     \/ p.spirit_slots[i].power >= StrongPower

\* the score of the attack of spirit a on spirit t
TargetScore(a, t) ==
  (IF Lethal(a, t) THEN 10 ELSE 0)
    + (IF a.power - t.defense > 0 THEN a.power - t.defense ELSE 0) - t.power

\* slot n of the opponent holds the target spirit a would attack: the first
\* of the spirits of the greatest score, a score of at least 0
BestTarget(a, o, n) ==
  /\ ~IsNone(o.spirit_slots[n])
  /\ TargetScore(a, o.spirit_slots[n]) >= 0
  /\ \A u \in 1..NumSpiritSlots :
       ~IsNone(o.spirit_slots[u]) =>
         /\ TargetScore(a, o.spirit_slots[u]) <= TargetScore(a, o.spirit_slots[n])
         /\ u < n => TargetScore(a, o.spirit_slots[u]) < TargetScore(a, o.spirit_slots[n])

SpiritOk(p, o, i) ==
  \E n \in 1..NumSpiritSlots :
    BestTarget(p.spirit_slots[i], o, n) /\ Lethal(p.spirit_slots[i], o.spirit_slots[n])

CanPay(p, i) ==
  ~IsNone(p.spirit_slots[i]) /\ p.aether >= p.spirit_slots[i].activation_cost

Qualifies(p, o, i) == CanPay(p, i) /\ (WizardOk(p, o, i) \/ SpiritOk(p, o, i))

C35_InvocationPriority ==
  LET p == players[bot_id]
      o == players[OtherSide(bot_id)]
      move == get_move
      k == move.slot_index + 1
      Activates(stacks) ==
        /\ move.type = "activate_spell"
        /\ k \in stacks
        /\ move.copies_used = AffordableCopies(p, k)
        /\ move.copies_used >= 1
  IN  (current_phase = "invocation" /\ difficulty # "easy") =>
        IF HasSpirits(o) /\ Affordable(p, "aoe_damage") # {}
        THEN Activates(Affordable(p, "aoe_damage"))
        ELSE IF p.wizard_hp <= 10 /\ Affordable(p, "heal_wizard") # {}
        THEN Activates(Affordable(p, "heal_wizard"))
        ELSE IF \E i \in 1..NumSpiritSlots : Qualifies(p, o, i)
        THEN /\ move.type = "attack"
             /\ Qualifies(p, o, k)
             /\ \A j \in 1..(k - 1) : ~Qualifies(p, o, j)
             /\ IF WizardOk(p, o, k)
                THEN move.target_type = "wizard"
                ELSE /\ move.target_type = "spirit"
                     /\ BestTarget(p.spirit_slots[k], o, move.target_index[1] + 1)
        ELSE move = AdvanceMove

\* the policy has been asked in Invocation with opposing spirits on the
\* board and has answered with two copies of an area spell, the whole
\* stack, while the side's aether would pay for more
C35_Witness ==
  /\ lastCall.op = "get_move"
  /\ current_phase = "invocation"
  /\ lastCall.args[1].type = "activate_spell"
  /\ lastCall.args[1].copies_used = 2
  /\ players[bot_id].aether > 2
  /\ players[bot_id].spell_slots[lastCall.args[1].slot_index + 1][1].aoe_damage


C37_LocalPlacementThenInvocation ==
  [][ai.pc = "placed" =>
       /\ current_player_id' = bot_id
       /\ current_phase' = "invocation"
       /\ ai'.pc = "loop"]_vars


\* ------------------------------------------------------------------------
\* C38: every move other than advance_phase that get_move proposes on the
\* AI's turn is accepted by the engine when the driver applies it to the
\* state it was proposed in, for cards whose effects are of the effect
\* vocabulary (an area spell's target group is the enemy spirits).
\* ------------------------------------------------------------------------
InVocabulary(card) == card.aoe_damage => card.target = "enemy_spirits"

VocabularyOnly(p) ==
  /\ \A c \in CardsIn(p.hand) : InVocabulary(c)
  /\ \A k \in FilledSlots(p) : \A c \in CardsIn(p.spell_slots[k]) : InVocabulary(c)

C38_ProposedMovesAccepted ==
  (/\ lastCall.op \in ResolverOps
   /\ lastCall.side = bot_id
   /\ VocabularyOnly(lastCall.before.players[bot_id])) => lastCall.ok

\* the driver has applied a replace_spell move and the engine has put the
\* proposed spell in the place of the stack
C38_Witness ==
  /\ lastCall.op = "replace_spell"
  /\ lastCall.ok
  /\ VocabularyOnly(lastCall.before.players[bot_id])
  /\ players[bot_id].spell_slots # lastCall.before.players[bot_id].spell_slots


\* ------------------------------------------------------------------------
\* C39: no resolver operation, whether it succeeds or fails, changes
\* current_player_id, current_phase or turn_count, and none changes a deck;
\* of the calls made on the engine only next_phase changes the phase, the
\* side to move and turn_count, and a deck changes only in the upkeep that
\* next_phase runs for the side whose turn begins.
\* ------------------------------------------------------------------------
DecksChanged(before, after) == { s \in Sides : after[s].deck # before[s].deck }

C39_ResolverFrame ==
  /\ lastCall.op \in ResolverOps =>
       /\ current_player_id = lastCall.before.current_player_id
       /\ current_phase = lastCall.before.current_phase
       /\ turn_count = lastCall.before.turn_count
       /\ DecksChanged(lastCall.before.players, players) = {}
  /\ (lastCall.op = "next_phase" /\ DecksChanged(lastCall.before.players, players) # {}) =>
       /\ lastCall.before.current_phase = "respite"
       /\ current_phase = "attunement"
       /\ current_player_id # lastCall.before.current_player_id
       /\ DecksChanged(lastCall.before.players, players) = { current_player_id }

\* a summon has succeeded for a side whose deck holds a card, and the card
\* is still on the deck
C39_Witness ==
  /\ lastCall.op = "summon_spirit"
  /\ lastCall.ok
  /\ players[lastCall.side].deck # << >>
  /\ players[lastCall.side].deck = lastCall.before.players[lastCall.side].deck


\* ------------------------------------------------------------------------
\* C40: for every integer copies_used, 0 and negative values included, a
\* call of activate_spell never leaves the caster with more aether than it
\* had and never with less wizard_hp.
\* ------------------------------------------------------------------------
C40_ActivateNeverGainsAether ==
  lastCall.op = "activate_spell" =>
    /\ players[lastCall.side].aether <= lastCall.before.players[lastCall.side].aether
    /\ players[lastCall.side].wizard_hp >= lastCall.before.players[lastCall.side].wizard_hp

====
